---- MODULE Spec2Model ----
(***************************************************************************)
(* README pattern-learning engine of readme_generator                      *)
(* (src/lib/readme-learning.ts): the process-wide Pattern Store, the       *)
(* learn / best-pattern / synthesis operations and the pure functions      *)
(* they are built from.  Strings are TLA+ strings, a README is the         *)
(* sequence of its lines (readme.split("\n")), a generated README is the   *)
(* sequence of its newline-terminated lines, and non-integral numbers      *)
(* (positions, similarities) are exact fractions [n, d].                   *)
(***************************************************************************)
EXTENDS Integers, Sequences, FiniteSets, TLC

(***************************************************************************)
(* Strings                                                                 *)
(***************************************************************************)
Char(s, i) == SubSeq(s, i, i)

UpperChars == "ABCDEFGHIJKLMNOPQRSTUVWXYZ"

LowerChars == "abcdefghijklmnopqrstuvwxyz"

DigitChars == "0123456789"

LowerMap ==
  [c \in {Char(UpperChars, i) : i \in 1..26} |->
     Char(LowerChars, CHOOSE i \in 1..26 : Char(UpperChars, i) = c)]

WordChars ==
  {Char(UpperChars, i) : i \in 1..26} \cup {Char(LowerChars, i) : i \in 1..26}
    \cup {Char(DigitChars, i) : i \in 1..10} \cup {"_"}

LetterChars ==
  {Char(UpperChars, i) : i \in 1..26} \cup {Char(LowerChars, i) : i \in 1..26}

\* \s of a JavaScript regular expression, over the characters README lines use
IsSpace(c) == c \in {" ", "\t"}

RECURSIVE ToLowerFrom(_, _)
ToLowerFrom(s, i) ==
  IF i > Len(s) THEN ""
  ELSE (IF Char(s, i) \in DOMAIN LowerMap THEN LowerMap[Char(s, i)] ELSE Char(s, i))
         \o ToLowerFrom(s, i + 1)

\* String.prototype.toLowerCase
ToLowerCase(s) == ToLowerFrom(s, 1)

\* String.prototype.includes
Includes(s, sub) ==
  \E i \in 1..(Len(s) - Len(sub) + 1) : SubSeq(s, i, i + Len(sub) - 1) = sub

\* String.prototype.trim().length === 0
IsBlank(s) == \A i \in 1..Len(s) : IsSpace(Char(s, i))

\* "#".repeat(n)
RECURSIVE Repeat(_, _)
Repeat(c, n) == IF n <= 0 THEN "" ELSE c \o Repeat(c, n - 1)

Min2(a, b) == IF a <= b THEN a ELSE b

Max2(a, b) == IF a >= b THEN a ELSE b

Abs(a) == IF a < 0 THEN 0 - a ELSE a

(***************************************************************************)
(* Exact fractions for JavaScript numbers that need not be integral        *)
(***************************************************************************)
RECURSIVE GCD(_, _)
GCD(a, b) == IF b = 0 THEN a ELSE GCD(b, a % b)

Frac(n, d) ==
  LET g == GCD(Abs(n), d) IN
    IF n = 0 THEN [n |-> 0, d |-> 1] ELSE [n |-> n \div g, d |-> d \div g]

FracOfInt(k) == [n |-> k, d |-> 1]

FracLess(a, b) == a.n * b.d < b.n * a.d

FracLeq(a, b) == a.n * b.d <= b.n * a.d

\* Math.abs(a - b) <= k
FracWithin(a, b, k) == Abs(a.n * b.d - b.n * a.d) <= k * a.d * b.d

(***************************************************************************)
(* calculateStringSimilarity: Levenshtein matrix, row by row               *)
(***************************************************************************)
\* row i of the matrix, filled left to right; acc holds matrix[i][0..j-1]
RECURSIVE LevRow(_, _, _, _, _)
LevRow(str1, str2, i, prev, acc) ==
  LET j == Len(acc) IN
    IF j > Len(str2) THEN acc
    ELSE LET cost == IF Char(str1, i) = Char(str2, j) THEN 0 ELSE 1
             cell == Min2(Min2(prev[j + 1] + 1, acc[j] + 1), prev[j] + cost)
             next == Append(acc, cell)
         IN IF Len(next) > 0 THEN LevRow(str1, str2, i, prev, next) ELSE next

RECURSIVE LevRows(_, _, _, _)
LevRows(str1, str2, i, prev) ==
  IF i > Len(str1) THEN prev
  ELSE LET row == LevRow(str1, str2, i, prev, <<i>>)
       IN IF Len(row) > 0 THEN LevRows(str1, str2, i + 1, row) ELSE row

LevenshteinDistance(str1, str2) ==
  LevRows(str1, str2, 1, [j \in 1..(Len(str2) + 1) |-> j - 1])[Len(str2) + 1]

\* a variant that divides by the length of the shorter string
CalculateStringSimilarityByShorter(str1, str2) ==
  IF Len(str1) = 0 \/ Len(str2) = 0 THEN FracOfInt(0)
  ELSE LET m == Min2(Len(str1), Len(str2))
       IN Frac(m - LevenshteinDistance(str1, str2), m)

CalculateStringSimilarity(str1, str2) ==
  IF Len(str1) = 0 \/ Len(str2) = 0 THEN FracOfInt(0)
  ELSE LET m == Max2(Len(str1), Len(str2))
       IN Frac(m - LevenshteinDistance(str1, str2), m)

\* the two thresholds of the matcher
TitleThreshold == [n |-> 8, d |-> 10]

PatternThreshold == [n |-> 7, d |-> 10]

(***************************************************************************)
(* analyzeReadmeStructure: sections, keywords and style of one README      *)
(***************************************************************************)
RECURSIVE CountHashes(_, _)
CountHashes(line, i) ==
  IF i <= Len(line) /\ Char(line, i) = "#" THEN 1 + CountHashes(line, i + 1) ELSE 0

RECURSIVE CountSpaces(_, _)
CountSpaces(line, i) ==
  IF i <= Len(line) /\ IsSpace(Char(line, i)) THEN 1 + CountSpaces(line, i + 1) ELSE 0

\* line.match(/^(#{1,6})\s+(.+)$/): group 1 is the run of hashes, \s+ is
\* greedy and gives one character back to (.+) when nothing follows it
HeadingMatch(line) ==
  LET h == CountHashes(line, 1)
      w == CountSpaces(line, h + 1)
  IN IF h < 1 \/ h > 6 \/ w < 1 THEN [matched |-> FALSE]
     ELSE IF h + w < Len(line)
            THEN [matched |-> TRUE, level |-> h, title |-> SubSeq(line, h + w + 1, Len(line))]
          ELSE IF w >= 2
            THEN [matched |-> TRUE, level |-> h, title |-> Char(line, Len(line))]
          ELSE [matched |-> FALSE]

CommonWords ==
  {"the", "a", "an", "and", "or", "but", "in", "on", "at", "to", "for", "with",
   "by", "about", "as", "of"}

\* text.toLowerCase().replace(/[^\w\s]/g, "")
RECURSIVE CleanText(_, _)
CleanText(s, i) ==
  IF i > Len(s) THEN ""
  ELSE (IF Char(s, i) \in WordChars \/ IsSpace(Char(s, i)) THEN Char(s, i) ELSE "")
         \o CleanText(s, i + 1)

\* cleanText.split(/\s+/)
RECURSIVE SplitWords(_, _, _, _)
SplitWords(s, i, cur, inGap) ==
  IF i > Len(s) THEN <<cur>>
  ELSE IF IsSpace(Char(s, i))
         THEN IF inGap THEN SplitWords(s, i + 1, cur, TRUE)
              ELSE <<cur>> \o SplitWords(s, i + 1, "", TRUE)
       ELSE SplitWords(s, i + 1, cur \o Char(s, i), FALSE)

\* words.filter((word) => word.length > 2 && !commonWords.has(word))
RECURSIVE FilterWords(_, _)
FilterWords(words, i) ==
  IF i > Len(words) THEN <<>>
  ELSE (IF Len(words[i]) > 2 /\ words[i] \notin CommonWords THEN <<words[i]>> ELSE <<>>)
         \o FilterWords(words, i + 1)

ExtractKeywords(text) ==
  FilterWords(SplitWords(CleanText(ToLowerCase(text), 1), 1, "", FALSE), 1)

NewSection(title, level, position, keywords) ==
  [title |-> title, level |-> level, content |-> <<>>, frequency |-> 1,
   position |-> FracOfInt(position), keywords |-> keywords]

\* a variant that numbers a heading before the section in progress is saved
ParseLineBeforePush(st, line) ==
  LET m == HeadingMatch(line) IN
    IF m.matched
      THEN LET saved == IF st.cur # <<>>
                          THEN Append(st.sections, [st.cur[1] EXCEPT !.content = st.content])
                          ELSE st.sections
           IN [sections |-> saved,
               cur |-> <<NewSection(m.title, m.level, Len(st.sections),
                                    ExtractKeywords(m.title))>>,
               content |-> IF st.cur # <<>> THEN <<>> ELSE st.content]
    ELSE IF st.cur # <<>>
      THEN [st EXCEPT !.content = Append(st.content, line)]
    ELSE IF ~IsBlank(line)
      THEN [st EXCEPT !.cur = <<NewSection("Introduction", 0, 0, <<>>)>>,
                      !.content = Append(st.content, line)]
    ELSE st

\* one iteration of the line loop; cur is <<>> (null) or <<currentSection>>
ParseLine(st, line) ==
  LET m == HeadingMatch(line) IN
    IF m.matched
      THEN LET saved == IF st.cur # <<>>
                          THEN Append(st.sections, [st.cur[1] EXCEPT !.content = st.content])
                          ELSE st.sections
           IN [sections |-> saved,
               cur |-> <<NewSection(m.title, m.level, Len(saved), ExtractKeywords(m.title))>>,
               content |-> IF st.cur # <<>> THEN <<>> ELSE st.content]
    ELSE IF st.cur # <<>>
      THEN [st EXCEPT !.content = Append(st.content, line)]
    ELSE IF ~IsBlank(line)
      THEN [st EXCEPT !.cur = <<NewSection("Introduction", 0, 0, <<>>)>>,
                      !.content = Append(st.content, line)]
    ELSE st

RECURSIVE ParseLines(_, _, _)
ParseLines(lines, i, st) ==
  IF i > Len(lines) THEN st ELSE ParseLines(lines, i + 1, ParseLine(st, lines[i]))

\* after the loop: add the last section if there is one
CloseSection(st) ==
  IF st.cur # <<>>
    THEN Append(st.sections, [st.cur[1] EXCEPT !.content = st.content])
    ELSE st.sections

ParseSections(lines) ==
  CloseSection(ParseLines(lines, 1, [sections |-> <<>>, cur |-> <<>>, content |-> <<>>]))

\* A TLA+ string cannot hold a backquote: "~" stands for it in every string
\* of this module, so Fence is the three backquotes of a code fence
BQ == "~"

Fence == BQ \o BQ \o BQ

\* readme.includes(sub) for a sub without a line break
ReadmeIncludes(lines, sub) == \E i \in 1..Len(lines) : Includes(lines[i], sub)

\* /:[a-z_]+:/i.test(readme)
HasShortcode(line) ==
  \E i \in 1..Len(line) : \E j \in (i + 2)..Len(line) :
    /\ Char(line, i) = ":"
    /\ Char(line, j) = ":"
    /\ \A k \in (i + 1)..(j - 1) : Char(line, k) \in LetterChars \cup {"_"}

RECURSIVE SumContent(_, _)
SumContent(sections, i) ==
  IF i > Len(sections) THEN 0 ELSE Len(sections[i].content) + SumContent(sections, i + 1)

DetectStyle(lines, sections) ==
  [usesEmoji |-> \E i \in 1..Len(lines) : HasShortcode(lines[i]),
   usesShields |-> ReadmeIncludes(lines, "shields.io")
                     \/ (ReadmeIncludes(lines, "![") /\ ReadmeIncludes(lines, "badge")),
   usesCodeBlocks |-> ReadmeIncludes(lines, Fence),
   usesTables |-> ReadmeIncludes(lines, "|") /\ ReadmeIncludes(lines, "---"),
   usesImages |-> ReadmeIncludes(lines, "![") /\ ~ReadmeIncludes(lines, "shields.io"),
   averageSectionLength |->
     Frac(SumContent(sections, 1), IF Len(sections) = 0 THEN 1 ELSE Len(sections)),
   headerStyle |-> IF ReadmeIncludes(lines, "===") \/ ReadmeIncludes(lines, "---")
                     THEN "underline" ELSE "hash"]

\* the pattern literal built from the sections and the style
NewPattern(lines, sections) ==
  [sections |-> sections, style |-> DetectStyle(lines, sections), frequency |-> 1]

\* a variant without the early return for an empty or white-space README
AnalyzeReadmeStructureUnguarded(lines) == <<NewPattern(lines, ParseSections(lines))>>

\* <<>> is null, <<pattern>> the analysed pattern
AnalyzeReadmeStructure(lines) ==
  IF \A i \in 1..Len(lines) : IsBlank(lines[i]) THEN <<>>
  ELSE <<NewPattern(lines, ParseSections(lines))>>

(***************************************************************************)
(* categorizeRepository                                                    *)
(***************************************************************************)
TopicsInclude(topics, names) ==
  \E i \in 1..Len(topics) : ToLowerCase(topics[i]) \in names

\* repo.language || "unknown"; "" stands for null, both are falsy
BaseCategory(repo) == IF repo.language # "" THEN repo.language ELSE "unknown"

\* the first if / else-if chain, over the topics
TopicSuffix(repo) ==
  IF Len(repo.topics) > 0
    THEN IF TopicsInclude(repo.topics, {"react", "vue", "angular"}) THEN "-frontend"
         ELSE IF TopicsInclude(repo.topics, {"api", "backend", "server"}) THEN "-backend"
         ELSE IF TopicsInclude(repo.topics, {"ml", "ai", "machine-learning", "data-science"})
           THEN "-ml"
         ELSE ""
    ELSE ""

\* the second if / else-if chain, over name and description
NameSuffix(repo) ==
  LET nameAndDesc == ToLowerCase(repo.name \o " " \o repo.description) IN
    IF Includes(nameAndDesc, "awesome") \/ Includes(nameAndDesc, "list") THEN "-list"
    ELSE IF Includes(nameAndDesc, "boilerplate") \/ Includes(nameAndDesc, "starter")
              \/ Includes(nameAndDesc, "template")
      THEN "-template"
    ELSE IF Includes(nameAndDesc, "docs") \/ Includes(nameAndDesc, "documentation")
      THEN "-docs"
    ELSE ""

\* a variant that lower-cases the language
CategorizeRepositoryLowerCase(repo) ==
  ToLowerCase(BaseCategory(repo)) \o TopicSuffix(repo) \o NameSuffix(repo)

CategorizeRepository(repo) == BaseCategory(repo) \o TopicSuffix(repo) \o NameSuffix(repo)

(***************************************************************************)
(* Matcher: findSimilarPattern, calculateSectionSimilarity, mergeSections  *)
(***************************************************************************)
SectionsMatch(section1, section2) ==
  /\ FracLess(TitleThreshold,
              CalculateStringSimilarity(ToLowerCase(section1.title), ToLowerCase(section2.title)))
  /\ FracWithin(section1.position, section2.position, 2)

\* a variant that divides by the number of sections instead of distinct titles
CalculateSectionSimilarityOverAll(sections1, sections2) ==
  LET matches ==
        Cardinality({i \in 1..Len(sections1) :
                       \E j \in 1..Len(sections2) : SectionsMatch(sections1[i], sections2[j])})
  IN IF Len(sections1) + Len(sections2) = 0 THEN [n |-> 0, d |-> 0]
     ELSE Frac(matches, Len(sections1) + Len(sections2))

\* the nested loops: one match for every section1 that some section2 matches,
\* the inner loop stopping at the first such section2
CountMatches(sections1, sections2) ==
  Cardinality({i \in 1..Len(sections1) :
                 \E j \in 1..Len(sections2) : SectionsMatch(sections1[i], sections2[j])})

\* matches / uniqueSections.size; [n |-> 0, d |-> 0] is NaN (0 / 0)
CalculateSectionSimilarity(sections1, sections2) ==
  LET matches == CountMatches(sections1, sections2)
      uniqueSections ==
        {ToLowerCase(sections1[i].title) : i \in 1..Len(sections1)}
          \cup {ToLowerCase(sections2[j].title) : j \in 1..Len(sections2)}
  IN IF Cardinality(uniqueSections) = 0 THEN [n |-> 0, d |-> 0]
     ELSE Frac(matches, Cardinality(uniqueSections))

\* a variant that keeps looking for the most similar pattern above the threshold
FindMostSimilarPattern(patterns, newPattern) ==
  LET sim == [i \in 1..Len(patterns) |->
                CalculateSectionSimilarity(patterns[i].sections, newPattern.sections)]
      similar == {i \in 1..Len(patterns) : FracLess(PatternThreshold, sim[i])}
  IN IF similar = {} THEN 0
     ELSE CHOOSE i \in similar :
            \A k \in similar : FracLess(sim[k], sim[i]) \/ (sim[k] = sim[i] /\ i <= k)

\* index of the first stored pattern that is similar enough, 0 for -1
FindSimilarPattern(patterns, newPattern) ==
  LET similar ==
        {i \in 1..Len(patterns) :
           FracLess(PatternThreshold,
                    CalculateSectionSimilarity(patterns[i].sections, newPattern.sections))}
  IN IF similar = {} THEN 0 ELSE CHOOSE i \in similar : \A k \in similar : i <= k

RECURSIVE MergeKeywords(_, _, _)
MergeKeywords(keywords, new, i) ==
  IF i > Len(new) THEN keywords
  ELSE MergeKeywords(IF \E k \in 1..Len(keywords) : keywords[k] = new[i]
                       THEN keywords ELSE Append(keywords, new[i]),
                     new, i + 1)

TitlesSimilar(section, newSection) ==
  FracLess(TitleThreshold,
           CalculateStringSimilarity(ToLowerCase(section.title), ToLowerCase(newSection.title)))

\* the update of the matching section, the m-th: frequency first, then the
\* position, which reads the frequency already incremented
UpdateSection(existingSections, newSection, m) ==
  LET frequency == existingSections[m].frequency + 1
      p == existingSections[m].position
      q == newSection.position
  IN [existingSections EXCEPT
        ![m] = [@ EXCEPT
                  !.frequency = frequency,
                  !.position = Frac((p.n * frequency) * q.d + q.n * p.d,
                                    p.d * q.d * (frequency + 1)),
                  !.keywords = MergeKeywords(@, newSection.keywords, 1)]]

\* the body of the for loop of mergeSections for one newSection
MergeSection(existingSections, newSection) ==
  LET found == {i \in 1..Len(existingSections) : TitlesSimilar(existingSections[i], newSection)}
  IN IF found = {} THEN Append(existingSections, newSection)
     ELSE UpdateSection(existingSections, newSection,
                        CHOOSE i \in found : \A k \in found : i <= k)

\* stable insertion of e after every element whose position is not greater
RECURSIVE InsertByPosition(_, _, _)
InsertByPosition(sorted, e, i) ==
  IF i > Len(sorted) THEN Append(sorted, e)
  ELSE IF FracLess(e.position, sorted[i].position)
    THEN SubSeq(sorted, 1, i - 1) \o <<e>> \o SubSeq(sorted, i, Len(sorted))
  ELSE InsertByPosition(sorted, e, i + 1)

\* existingSections.sort((a, b) => a.position - b.position), a stable sort
RECURSIVE SortByPosition(_, _, _)
SortByPosition(sections, i, sorted) ==
  IF i > Len(sections) THEN sorted
  ELSE SortByPosition(sections, i + 1, InsertByPosition(sorted, sections[i], 1))

RECURSIVE MergeEach(_, _, _)
MergeEach(existingSections, newSections, i) ==
  IF i > Len(newSections) THEN existingSections
  ELSE MergeEach(MergeSection(existingSections, newSections[i]), newSections, i + 1)

\* a variant that leaves the sections in the order the loop left them
MergeSectionsUnsorted(existingSections, newSections) ==
  MergeEach(existingSections, newSections, 1)

MergeSections(existingSections, newSections) ==
  SortByPosition(MergeEach(existingSections, newSections, 1), 1, <<>>)

(***************************************************************************)
(* Pattern Store query: getBestPatternForRepository                        *)
(***************************************************************************)
\* stable insertion of p after every pattern whose frequency is not smaller
RECURSIVE InsertByFrequency(_, _, _)
InsertByFrequency(sorted, p, i) ==
  IF i > Len(sorted) THEN Append(sorted, p)
  ELSE IF p.frequency > sorted[i].frequency
    THEN SubSeq(sorted, 1, i - 1) \o <<p>> \o SubSeq(sorted, i, Len(sorted))
  ELSE InsertByFrequency(sorted, p, i + 1)

\* patterns.sort((a, b) => b.frequency - a.frequency): stable, and in place
RECURSIVE SortByFrequency(_, _, _)
SortByFrequency(patterns, i, sorted) ==
  IF i > Len(patterns) THEN sorted
  ELSE SortByFrequency(patterns, i + 1, InsertByFrequency(sorted, patterns[i], 1))

\* category.split("-")[0]
RECURSIVE BeforeDash(_, _)
BeforeDash(s, i) ==
  IF i > Len(s) \/ Char(s, i) = "-" THEN "" ELSE Char(s, i) \o BeforeDash(s, i + 1)

GeneralCategory(category) == BeforeDash(category, 1)

\* a variant without the fallback to the general category
LookupCategoryExact(patterns, category) ==
  IF category \in DOMAIN patterns THEN <<category>> ELSE <<>>

\* the list the query sorts: the category's own, else the general one's, else none
LookupCategory(patterns, category) ==
  IF category \in DOMAIN patterns THEN <<category>>
  ELSE IF GeneralCategory(category) \in DOMAIN patterns THEN <<GeneralCategory(category)>>
  ELSE <<>>

\* found is <<>> for null, else <<the returned pattern>>; patterns is the
\* store after the call (the sort reorders the stored array itself)
GetBestPatternForRepository(patterns, repo) ==
  LET hit == LookupCategory(patterns, CategorizeRepository(repo)) IN
    IF hit = <<>> THEN [found |-> <<>>, patterns |-> patterns]
    ELSE LET sorted == SortByFrequency(patterns[hit[1]], 1, <<>>)
         IN [found |-> <<sorted[1]>>, patterns |-> [patterns EXCEPT ![hit[1]] = sorted]]

(***************************************************************************)
(* README Synthesizer                                                      *)
(***************************************************************************)
Returned(lines) == [threw |-> FALSE, lines |-> lines]

Thrown == [threw |-> TRUE]

GetInstallCommandForLanguage(language) ==
  LET l == ToLowerCase(language) IN
    IF l \in {"javascript", "typescript"} THEN "npm install"
    ELSE IF l = "python" THEN "pip install -r requirements.txt"
    ELSE IF l = "ruby" THEN "bundle install"
    ELSE IF l = "go" THEN "go mod download"
    ELSE IF l = "rust" THEN "cargo build"
    ELSE IF l = "java" THEN "mvn install"
    ELSE IF l = "c#" THEN "dotnet restore"
    ELSE "# Install dependencies according to your project requirements"

GetUsageCommandForLanguage(language) ==
  LET l == ToLowerCase(language) IN
    IF l \in {"javascript", "typescript"} THEN "npm start"
    ELSE IF l = "python" THEN "python main.py"
    ELSE IF l = "ruby" THEN "ruby app.rb"
    ELSE IF l = "go" THEN "go run main.go"
    ELSE IF l = "rust" THEN "cargo run"
    ELSE IF l = "java" THEN "java -jar target/app.jar"
    ELSE IF l = "c#" THEN "dotnet run"
    ELSE "# Run the application according to your project requirements"

GenericLicenseSentence ==
  "This project is licensed under the terms of the license included in the repository."

\* the template literal of generateBasicReadme, line by line
BasicReadmeLines(repo) ==
  LET repoName == IF repo.name # "" THEN repo.name ELSE "Repository"
      repoDescription == IF repo.description # "" THEN repo.description ELSE "A software project"
      repoLanguage == IF repo.language # "" THEN repo.language ELSE "Not specified"
  IN <<"# " \o repoName, "", repoDescription, "",
         "## Installation", "",
         Fence \o "bash",
         "# Clone the repository",
         "git clone https://github.com/" \o repo.full_name \o ".git",
         "cd " \o repoName,
         "",
         "# Install dependencies",
         GetInstallCommandForLanguage(repoLanguage),
         Fence, "",
         "## Usage", "",
         Fence \o "bash",
         GetUsageCommandForLanguage(repoLanguage),
         Fence, "",
         "## Features", "",
         "- Feature 1", "- Feature 2", "- Feature 3", "",
         "## License", "",
         IF repo.license # "" THEN repo.license ELSE GenericLicenseSentence>>

\* a variant that reads a field of the analysis record
GenerateBasicReadmeOfAnalysis(repo, analysis) ==
  IF analysis = "undefined" THEN Thrown ELSE Returned(BasicReadmeLines(repo))

\* the analysis argument is never read
GenerateBasicReadme(repo, analysis) == Returned(BasicReadmeLines(repo))

GenerateInstallationSection(repo, analysis) ==
  Returned(<<Fence \o "bash",
             "# Clone the repository",
             "git clone https://github.com/" \o repo.full_name \o ".git",
             "cd " \o repo.name,
             "",
             "# Install dependencies",
             GetInstallCommandForLanguage(repo.language),
             Fence>>)

GenerateUsageSection(repo, analysis) ==
  Returned(<<Fence \o "bash",
             GetUsageCommandForLanguage(repo.language),
             Fence,
             "",
             "For more detailed usage instructions, please refer to the documentation.">>)

GenerateFeaturesSection(repo, analysis) ==
  Returned(<<"- Feature 1", "- Feature 2", "- Feature 3">>)

GenerateApiSection(repo, analysis) ==
  Returned(<<"This section would contain API documentation.",
             "",
             Fence \o "javascript",
             "// Example API usage",
             "const api = require('" \o repo.name \o "');",
             "const result = api.doSomething();",
             Fence>>)

GenerateContributingSection(repo) ==
  Returned(<<"Contributions are welcome! Please feel free to submit a Pull Request.",
             "",
             "1. Fork the repository",
             "2. Create your feature branch (" \o BQ \o "git checkout -b feature/amazing-feature"
               \o BQ \o ")",
             "3. Commit your changes (" \o BQ \o "git commit -m 'Add some amazing feature'"
               \o BQ \o ")",
             "4. Push to the branch (" \o BQ \o "git push origin feature/amazing-feature"
               \o BQ \o ")",
             "5. Open a Pull Request">>)

\* a variant without the test for a missing license
GenerateLicenseSectionNamed(repo) ==
  Returned(<<"This project is licensed under the " \o repo.license \o ".">>)

GenerateLicenseSection(repo) ==
  Returned(<<IF repo.license # ""
               THEN "This project is licensed under the " \o repo.license \o "."
               ELSE GenericLicenseSentence>>)

\* repo.owner.login throws a TypeError when the record has no owner
GenerateAuthorsSection(repo) ==
  IF ~repo.hasOwner THEN Thrown
  ELSE Returned(
         <<"- **" \o repo.login \o "** - *Initial work* - [" \o repo.login
             \o "](https://github.com/" \o repo.login \o ")",
           "",
           "See also the list of [contributors](https://github.com/" \o repo.full_name
             \o "/contributors) who participated in this project.">>)

\* a variant whose first rule looks for the word anywhere in the title
GenerateSectionContentByKeyword(sectionTitle, repo, analysis) ==
  LET title == ToLowerCase(sectionTitle) IN
    IF Includes(title, "introduction") \/ title = ""
      THEN Returned(<<IF repo.description # "" THEN repo.description ELSE "A software project.">>)
    ELSE IF Includes(title, "install") \/ Includes(title, "getting started")
              \/ Includes(title, "setup")
      THEN GenerateInstallationSection(repo, analysis)
    ELSE IF Includes(title, "usage") \/ Includes(title, "example")
      THEN GenerateUsageSection(repo, analysis)
    ELSE IF Includes(title, "feature") THEN GenerateFeaturesSection(repo, analysis)
    ELSE IF Includes(title, "api") \/ Includes(title, "documentation")
      THEN GenerateApiSection(repo, analysis)
    ELSE IF Includes(title, "contribute") \/ Includes(title, "contributing")
      THEN GenerateContributingSection(repo)
    ELSE IF Includes(title, "license") THEN GenerateLicenseSection(repo)
    ELSE IF Includes(title, "author") \/ Includes(title, "credit")
              \/ Includes(title, "acknowledgement")
      THEN GenerateAuthorsSection(repo)
    ELSE Returned(<<"This section needs to be filled with relevant information.">>)

GenerateSectionContent(sectionTitle, repo, analysis) ==
  LET title == ToLowerCase(sectionTitle) IN
    IF title = "introduction" \/ title = ""
      THEN Returned(<<IF repo.description # "" THEN repo.description ELSE "A software project.">>)
    ELSE IF Includes(title, "install") \/ Includes(title, "getting started")
              \/ Includes(title, "setup")
      THEN GenerateInstallationSection(repo, analysis)
    ELSE IF Includes(title, "usage") \/ Includes(title, "example")
      THEN GenerateUsageSection(repo, analysis)
    ELSE IF Includes(title, "feature") THEN GenerateFeaturesSection(repo, analysis)
    ELSE IF Includes(title, "api") \/ Includes(title, "documentation")
      THEN GenerateApiSection(repo, analysis)
    ELSE IF Includes(title, "contribute") \/ Includes(title, "contributing")
      THEN GenerateContributingSection(repo)
    ELSE IF Includes(title, "license") THEN GenerateLicenseSection(repo)
    ELSE IF Includes(title, "author") \/ Includes(title, "credit")
              \/ Includes(title, "acknowledgement")
      THEN GenerateAuthorsSection(repo)
    ELSE Returned(<<"This section needs to be filled with relevant information.">>)

\* encodeURIComponent over the characters repository metadata uses here
EncodeMap == (" " :> "%20") @@ ("#" :> "%23") @@ ("+" :> "%2B") @@ ("/" :> "%2F")

RECURSIVE EncodeURIComponent(_, _)
EncodeURIComponent(s, i) ==
  IF i > Len(s) THEN ""
  ELSE (IF Char(s, i) \in DOMAIN EncodeMap THEN EncodeMap[Char(s, i)] ELSE Char(s, i))
         \o EncodeURIComponent(s, i + 1)

RECURSIVE Join(_, _, _)
Join(parts, sep, i) ==
  IF i > Len(parts) THEN ""
  ELSE (IF i > 1 THEN sep ELSE "") \o parts[i] \o Join(parts, sep, i + 1)

GenerateBadges(repo) ==
  Join((IF repo.license # ""
          THEN <<"![License](https://img.shields.io/badge/license-"
                   \o EncodeURIComponent(repo.license, 1) \o "-blue.svg)">>
          ELSE <<>>)
       \o (IF repo.language # ""
             THEN <<"![Language](https://img.shields.io/badge/language-"
                      \o EncodeURIComponent(repo.language, 1) \o "-orange.svg)">>
             ELSE <<>>)
       \o <<"![Stars](https://img.shields.io/github/stars/" \o repo.full_name
              \o "?style=social)">>,
       " ", 1)

Heading(section) ==
  Repeat("#", section.level) \o (IF section.level > 0 THEN " " ELSE "") \o section.title

\* the for loop: heading, blank line, content, blank line for each section
RECURSIVE RenderSections(_, _, _, _)
RenderSections(sections, i, repo, analysis) ==
  IF i > Len(sections) THEN Returned(<<>>)
  ELSE LET content == GenerateSectionContent(sections[i].title, repo, analysis) IN
         IF content.threw THEN Thrown
         ELSE LET rest == RenderSections(sections, i + 1, repo, analysis) IN
                IF rest.threw THEN Thrown
                ELSE Returned(<<Heading(sections[i]), "">> \o content.lines \o <<"">> \o rest.lines)

\* readme.replace(/^(# .+\n\n)/, `$1${badges}\n\n`): the document must open
\* with a "# x" line followed by an empty line
InsertBadges(lines, badges) ==
  IF /\ Len(lines) >= 2
     /\ Len(lines[1]) >= 3
     /\ SubSeq(lines[1], 1, 2) = "# "
     /\ lines[2] = ""
    THEN <<lines[1], "", badges, "">> \o SubSeq(lines, 3, Len(lines))
    ELSE lines

GenerateReadmeFromPattern(repo, analysis, pattern) ==
  LET readme == RenderSections(pattern.sections, 1, repo, analysis) IN
    IF readme.threw THEN Thrown
    ELSE IF pattern.style.usesShields
      THEN Returned(InsertBadges(readme.lines, GenerateBadges(repo)))
    ELSE readme

\* readme is the outcome for the caller, patterns the store after the call
GenerateReadmeFromLearning(patterns, repo, analysis) ==
  LET best == GetBestPatternForRepository(patterns, repo) IN
    [readme |-> IF best.found = <<>> THEN GenerateBasicReadme(repo, analysis)
                ELSE GenerateReadmeFromPattern(repo, analysis, best.found[1]),
     patterns |-> best.patterns]

(***************************************************************************)
(* learnFromRepository                                                     *)
(***************************************************************************)
RECURSIVE SumFrequency(_, _)
SumFrequency(patterns, i) ==
  IF i > Len(patterns) THEN 0 ELSE patterns[i].frequency + SumFrequency(patterns, i + 1)

RECURSIVE CountPatterns(_, _)
CountPatterns(store, categories) ==
  IF categories = {} THEN 0
  ELSE LET c == CHOOSE k \in categories : TRUE
       IN Len(store[c]) + CountPatterns(store, categories \ {c})

\* the statements of the try block.  env is what the GitHub client answers:
\* whether README.md exists, whether fetching it fails, and its lines.
\* born (the ordinal of the stored object) and from (the READMEs folded
\* into it) are history fields, read by no operation.
\* a variant that puts the new pattern in the place of the similar one
UpdatePatternsReplacing(patterns, pattern, similarPatternIndex) ==
  IF similarPatternIndex >= 1
    THEN [patterns EXCEPT ![similarPatternIndex] = pattern]
    ELSE Append(patterns, pattern)

\* update the similar pattern or add the new one to the category's list
UpdatePatterns(patterns, pattern, similarPatternIndex) ==
  IF similarPatternIndex >= 1
    THEN [patterns EXCEPT ![similarPatternIndex] =
            [@ EXCEPT !.frequency = @ + 1,
                      !.sections = MergeSections(@, pattern.sections),
                      !.from = Append(@, pattern.from[1])]]
    ELSE Append(patterns, pattern)

\* store the pattern under the category; born and from record its history
StorePattern(store, category, patterns, pattern) ==
  (category :> UpdatePatterns(patterns, pattern, FindSimilarPattern(patterns, pattern)))
    @@ store

\* a variant that writes the category's list as if it had been read empty
LearnPatternAfresh(store, category, id, analysed) ==
  IF analysed = <<>> THEN [threw |-> FALSE, store |-> store]
  ELSE [threw |-> FALSE,
        store |-> StorePattern(store, category, <<>>,
                               [sections |-> analysed[1].sections,
                                style |-> analysed[1].style,
                                frequency |-> analysed[1].frequency,
                                born |-> CountPatterns(store, DOMAIN store) + 1,
                                from |-> <<id>>])]

\* what follows the analysis of the README
LearnPattern(store, category, id, analysed) ==
  IF analysed = <<>> THEN [threw |-> FALSE, store |-> store]
  ELSE [threw |-> FALSE,
        store |-> StorePattern(store, category,
                               IF category \in DOMAIN store THEN store[category] ELSE <<>>,
                               [sections |-> analysed[1].sections,
                                style |-> analysed[1].style,
                                frequency |-> analysed[1].frequency,
                                born |-> CountPatterns(store, DOMAIN store) + 1,
                                from |-> <<id>>])]

LearnBody(store, repo, env) ==
  IF ~repo.hasOwner THEN [threw |-> TRUE, store |-> store]
  ELSE IF ~env.readmeExists THEN [threw |-> FALSE, store |-> store]
  ELSE IF env.fetchFails THEN [threw |-> TRUE, store |-> store]
  ELSE LearnPattern(store, CategorizeRepository(repo), env.id,
                    AnalyzeReadmeStructure(env.content))

\* the catch block logs and returns: nothing is thrown to the caller
LearnFromRepository(store, repo, env) ==
  [threw |-> FALSE, store |-> LearnBody(store, repo, env).store]

(***************************************************************************)
(* Cache (cache.ts): a memory map in front of localStorage                 *)
(***************************************************************************)
\* a number in decimal, as JSON.stringify writes it
RECURSIVE Decimal(_)
Decimal(n) == IF n < 10 THEN Char(DigitChars, n + 1)
              ELSE Decimal(n \div 10) \o Char(DigitChars, (n % 10) + 1)

DigitValue(c) == (CHOOSE k \in 1..10 : Char(DigitChars, k) = c) - 1

IsDigit(c) == \E k \in 1..10 : Char(DigitChars, k) = c

\* the number written in s from index i on, digits read left to right
RECURSIVE ParseDecimal(_, _, _)
ParseDecimal(s, i, acc) ==
  IF i <= Len(s) /\ IsDigit(Char(s, i))
    THEN ParseDecimal(s, i + 1, acc * 10 + DigitValue(Char(s, i)))
    ELSE acc

\* index of the first double quote of s at or after i
RECURSIVE NextQuote(_, _)
NextQuote(s, i) == IF i > Len(s) \/ Char(s, i) = "\"" THEN i ELSE NextQuote(s, i + 1)

ValueField == "{\"value\":\""

ExpiryField == "\",\"expiry\":"

\* JSON.stringify({ value, expiry }) for a string value without quotes in it
JsonStringify(entry) ==
  ValueField \o entry.value \o ExpiryField \o Decimal(entry.expiry) \o "}"

\* JSON.parse of such a text
JsonParse(text) ==
  LET start == Len(ValueField) + 1 IN
    [value |-> SubSeq(text, start, NextQuote(text, start) - 1),
     expiry |-> ParseDecimal(text, NextQuote(text, start) + Len(ExpiryField), 0)]

CachePrefix == "github_cache_"

StorageKey(key) == CachePrefix \o key

StartsWith(s, prefix) == Len(s) >= Len(prefix) /\ SubSeq(s, 1, Len(prefix)) = prefix

\* a map without one of its keys
Without(map, key) == [k \in DOMAIN map \ {key} |-> map[k]]

\* a variant of set that keeps the entry in memory only
CacheSetInMemory(c, key, value, ttlSeconds) ==
  [c EXCEPT !.memory = (key :> [value |-> value, expiry |-> c.now + ttlSeconds * 1000]) @@ @]

\* set: c is the cache with its surroundings: memory map, localStorage, whether
\* localStorage exists at all (an access throws when it does not), the clock
CacheSet(c, key, value, ttlSeconds) ==
  LET entry == [value |-> value, expiry |-> c.now + ttlSeconds * 1000] IN
    [c EXCEPT !.memory = (key :> entry) @@ @,
              !.storage = IF c.available THEN (StorageKey(key) :> JsonStringify(entry)) @@ @
                          ELSE @]

\* what get returns with the cache it leaves: value is <<>> for null
Got(value, c) == [value |-> value, cache |-> c]

\* the branch of get for a key that is not in memory
GetFromStorage(c, key) ==
  IF ~c.available \/ StorageKey(key) \notin DOMAIN c.storage THEN Got(<<>>, c)
  ELSE IF JsonParse(c.storage[StorageKey(key)]).expiry > c.now
    THEN Got(<<JsonParse(c.storage[StorageKey(key)]).value>>,
             [c EXCEPT !.memory = (key :> JsonParse(c.storage[StorageKey(key)])) @@ @])
  ELSE Got(<<>>, [c EXCEPT !.storage = Without(@, StorageKey(key))])

\* a variant that still serves the entry at the instant it expires
GetFromMemoryLate(c, key) ==
  IF c.memory[key].expiry < c.now
    THEN Got(<<>>, [c EXCEPT !.memory = Without(@, key),
                             !.storage = IF c.available THEN Without(@, StorageKey(key))
                                         ELSE @])
    ELSE Got(<<c.memory[key].value>>, c)

\* the branch of get for a key found in memory
GetFromMemory(c, key) ==
  IF c.memory[key].expiry <= c.now
    THEN Got(<<>>, [c EXCEPT !.memory = Without(@, key),
                             !.storage = IF c.available THEN Without(@, StorageKey(key))
                                         ELSE @])
    ELSE Got(<<c.memory[key].value>>, c)

CacheGet(c, key) ==
  IF key \in DOMAIN c.memory THEN GetFromMemory(c, key) ELSE GetFromStorage(c, key)

\* a variant of clear that empties the memory map only
CacheClearMemory(c) == [c EXCEPT !.memory = <<>>]

CacheClear(c) ==
  [c EXCEPT !.memory = <<>>,
            !.storage = IF c.available
                          THEN [k \in {x \in DOMAIN @ : ~StartsWith(x, CachePrefix)} |-> @[k]]
                          ELSE @]

(***************************************************************************)
(* GitHub client (github-api.ts): rate limiter, fetch with retries, the    *)
(* five fetch methods over the cache                                       *)
(***************************************************************************)
RATE_LIMIT == 10

RATE_LIMIT_WINDOW == 60 * 1000

retryCount == 3

retryDelay == 1000

\* checkRateLimit at Date.now() = t over the requestCounts map
CheckRateLimit(counts, identifier, t) ==
  IF identifier \notin DOMAIN counts \/ t > counts[identifier].resetTime
    THEN [allowed |-> TRUE,
          counts |-> (identifier :> [count |-> 1, resetTime |-> t + RATE_LIMIT_WINDOW]) @@ counts]
  ELSE IF counts[identifier].count >= RATE_LIMIT
    THEN [allowed |-> FALSE, counts |-> counts]
  ELSE [allowed |-> TRUE, counts |-> [counts EXCEPT ![identifier].count = @ + 1]]

\* what one fetch meets: a response, with the two rate-limit headers (remaining
\* "" and reset <<>> when absent, reset in seconds) and the body, or a network
\* failure, for which fetch rejects
Response(status, remaining, reset, body) ==
  [failed |-> FALSE, status |-> status, remaining |-> remaining, reset |-> reset, body |-> body]

NetworkFailure == [failed |-> TRUE]

\* response.ok
Ok(response) == response.status >= 200 /\ response.status <= 299

\* Math.pow(2, k)
RECURSIVE Pow2(_)
Pow2(k) == IF k = 0 THEN 1 ELSE 2 * Pow2(k - 1)

\* what a retry leaves: the wait before it comes first among the waits
Waited(wait, outcome) == [outcome EXCEPT !.waits = <<wait>> \o @]

\* a variant whose delay is retryDelay before every retry
RECURSIVE FetchWithRetryEvenly(_, _, _, _)
FetchWithRetryEvenly(script, attempt, retries, t) ==
  IF script[IF attempt < Len(script) THEN attempt ELSE Len(script)].failed
    THEN IF retries > 0
           THEN [FetchWithRetryEvenly(script, attempt + 1, retries - 1, t + 1000)
                   EXCEPT !.waits = <<1000>> \o @]
           ELSE [threw |-> TRUE,
                 response |-> script[IF attempt < Len(script) THEN attempt ELSE Len(script)],
                 fetches |-> attempt, now |-> t, waits |-> <<>>]
  ELSE IF /\ script[IF attempt < Len(script) THEN attempt ELSE Len(script)].status >= 500
          /\ retries > 0
    THEN [FetchWithRetryEvenly(script, attempt + 1, retries - 1, t + 1000)
            EXCEPT !.waits = <<1000>> \o @]
  ELSE [threw |-> FALSE,
        response |-> script[IF attempt < Len(script) THEN attempt ELSE Len(script)],
        fetches |-> attempt, now |-> t, waits |-> <<>>]

\* fetchWithRetry: the attempt-th fetch is answered by the attempt-th element
\* of script (the last one again when the script is shorter); t is Date.now(),
\* which the waits move on. A retry is returned without await, so what it
\* throws is not caught a second time. The value tells what was returned or
\* thrown, the number of fetches, the time at the end and the waits made.
RECURSIVE FetchWithRetry(_, _, _, _)
FetchWithRetry(script, attempt, retries, t) ==
  LET response == script[Min2(attempt, Len(script))] IN
    IF response.failed
      THEN IF retries > 0
             THEN Waited(retryDelay * Pow2(retryCount - retries),
                         FetchWithRetry(script, attempt + 1, retries - 1,
                                        t + retryDelay * Pow2(retryCount - retries)))
             ELSE [threw |-> TRUE, response |-> response, fetches |-> attempt, now |-> t,
                   waits |-> <<>>]
    ELSE IF /\ response.status = 403
            /\ response.remaining = "0"
            /\ response.reset # <<>>
            /\ retries > 0
            /\ response.reset[1] * 1000 - t > 0
            /\ response.reset[1] * 1000 - t < 120000
      THEN Waited((response.reset[1] * 1000 - t) + 1000,
                  FetchWithRetry(script, attempt + 1, retries - 1,
                                 t + (response.reset[1] * 1000 - t) + 1000))
    ELSE IF ~Ok(response) /\ response.status >= 500 /\ retries > 0
      THEN Waited(retryDelay * Pow2(retryCount - retries),
                  FetchWithRetry(script, attempt + 1, retries - 1,
                                 t + retryDelay * Pow2(retryCount - retries)))
    ELSE [threw |-> FALSE, response |-> response, fetches |-> attempt, now |-> t,
          waits |-> <<>>]

\* atob on the base64 texts the answers carry
Base64 == ("" :> "") @@ ("SGk=" :> "Hi") @@ ("e30=" :> "{}")

Atob(text) == Base64[text]

\* cache key, rate-limit identifier, time to live and messages of the five
\* methods; owner is the username of the two user methods, whose perPage is
\* the default 10. The message of fetchUserRepos for an exhausted GitHub limit
\* goes on with the local time of the reset, which is left out.
Method(name, owner, repo, path) ==
  IF name = "fetchUserRepos"
    THEN [name |-> name, cacheKey |-> "user_repos_" \o owner \o "_" \o Decimal(10),
          identifier |-> "user_" \o owner, ttlSeconds |-> 300,
          notFound |-> "GitHub user not found"]
  ELSE IF name = "fetchRepo"
    THEN [name |-> name, cacheKey |-> "repo_" \o owner \o "_" \o repo,
          identifier |-> "repo_" \o owner \o "_" \o repo, ttlSeconds |-> 300,
          notFound |-> "Repository not found"]
  ELSE IF name = "fetchUserProfile"
    THEN [name |-> name, cacheKey |-> "user_profile_" \o owner,
          identifier |-> "user_" \o owner, ttlSeconds |-> 600,
          notFound |-> "GitHub user not found"]
  ELSE IF name = "fetchRepoContents"
    THEN [name |-> name, cacheKey |-> "repo_contents_" \o owner \o "_" \o repo \o "_" \o path,
          identifier |-> "repo_" \o owner \o "_" \o repo, ttlSeconds |-> 300,
          notFound |-> "Repository contents not found"]
  ELSE [name |-> name, cacheKey |-> "file_content_" \o owner \o "_" \o repo \o "_" \o path,
        identifier |-> "file_" \o owner \o "_" \o repo, ttlSeconds |-> 600,
        notFound |-> "File not found: " \o path]

\* the Error thrown for a response that is not ok
ErrorMessage(m, response) ==
  IF response.status = 404 THEN m.notFound
  ELSE IF m.name = "fetchFileContent" THEN "Failed to fetch file: " \o Decimal(response.status)
  ELSE IF response.status = 403
    THEN IF response.remaining = "0" THEN "GitHub API rate limit exceeded"
         ELSE "GitHub API access forbidden"
  ELSE "GitHub API error: " \o Decimal(response.status)

\* what a method answers and leaves: the cache, the requestCounts map, whether
\* it threw, the value or the message, the number of fetches it made and
\* whether it called cache.set
Answer(c, counts, threw, value, fetches, stored) ==
  [c |-> c, counts |-> counts, threw |-> threw, value |-> value, fetches |-> fetches,
   stored |-> stored]

\* a method from the response on: f is what fetchWithRetry gave; c.now is the
\* time after its waits
Respond(c, counts, m, f) ==
  IF f.threw THEN Answer(c, counts, TRUE, "fetch failed", f.fetches, FALSE)
  ELSE IF ~Ok(f.response)
    THEN Answer(c, counts, TRUE, ErrorMessage(m, f.response), f.fetches, FALSE)
  ELSE IF m.name = "fetchFileContent"
    THEN Answer(CacheSet(c, m.cacheKey, Atob(f.response.body), m.ttlSeconds), counts,
                FALSE, Atob(f.response.body), f.fetches, TRUE)
  ELSE Answer(CacheSet(c, m.cacheKey, f.response.body, m.ttlSeconds), counts,
              FALSE, f.response.body, f.fetches, TRUE)

\* a method after a cached value that did not pass "if (cachedData)"
Request(c, limit, m, f) ==
  IF ~limit.allowed
    THEN Answer(c, limit.counts, TRUE, "Rate limit exceeded. Please try again later.", 0, FALSE)
    ELSE Respond([c EXCEPT !.now = f.now], limit.counts, m, f)

\* if (cachedData): null and the empty string do not pass
Truthy(got) == got # <<>> /\ got[1] # ""

\* fetchUserRepos, fetchRepo, fetchUserProfile, fetchRepoContents and
\* fetchFileContent, which differ in what Method lists and in the atob
Fetch(c, counts, m, script) ==
  IF Truthy(CacheGet(c, m.cacheKey).value)
    THEN Answer(CacheGet(c, m.cacheKey).cache, counts, FALSE,
                CacheGet(c, m.cacheKey).value[1], 0, FALSE)
    ELSE Request(CacheGet(c, m.cacheKey).cache, CheckRateLimit(counts, m.identifier, c.now),
                 m, FetchWithRetry(script, 1, retryCount, c.now))

(***************************************************************************)
(* Inputs: repository records, README.md files, GitHub client answers      *)
(***************************************************************************)
\* "" stands for a null description, language or license
Repository(name, description, language, topics, license, login) ==
  [name |-> name, description |-> description, language |-> language, topics |-> topics,
   license |-> license, hasOwner |-> TRUE, login |-> login,
   full_name |-> login \o "/" \o name]

Repos ==
  [foo |-> Repository("foo", "bar", "Python", <<"machine-learning">>, "", "alice"),
   pylib |-> Repository("pylib", "", "Python", <<>>, "MIT License", "alice"),
   app |-> Repository("app", "An app", "JavaScript", <<>>, "MIT License", "bob"),
   site |-> Repository("site", "", "JavaScript", <<"website">>, "", "carol"),
   ghost |-> [Repository("ghost", "", "JavaScript", <<>>, "", "") EXCEPT !.hasOwner = FALSE],
   noname |-> Repository("", "", "", <<>>, "", "dave"),
   golist |-> Repository("awesome-go", "A curated LIST", "Go", <<"API", "react">>, "", "erin"),
   starter |-> Repository("ts-starter", "", "TypeScript", <<"Server">>, "", "erin"),
   docs |-> Repository("handbook", "Project documentation", "", <<"AI">>, "", "frank")]

Readmes ==
  [U |-> <<"# Usage">>,
   L |-> <<"# License">>,
   UL |-> <<"# Usage", "text", "## License">>,
   UUU |-> <<"## Usage", "## usage", "## Usage">>,
   E2E |-> <<"", "A tool.", "# Installation", "npm i", "## Usage", "## License", "MIT">>,
   Auth |-> <<"# Demo", "![build](https://img.shields.io/x.svg)", "## Authors">>,
   blank |-> <<"  ", "\t", "">>,
   empty |-> <<"">>]

FileAnswer(id, readmeExists, fetchFails, content) ==
  [id |-> id, readmeExists |-> readmeExists, fetchFails |-> fetchFails, content |-> content]

\* what fileExists and fetchFileContent answer for one learn call
Envs ==
  [e \in DOMAIN Readmes \cup {"noReadme", "fetchFails"} |->
     IF e = "noReadme" THEN FileAnswer(e, FALSE, FALSE, <<>>)
     ELSE IF e = "fetchFails" THEN FileAnswer(e, TRUE, TRUE, <<>>)
     ELSE FileAnswer(e, TRUE, FALSE, Readmes[e])]

\* the analysis argument of synthesis: absent, a record without its
\* optional fields, a complete record
Analyses == {"undefined", "partial", "complete"}

\* bounds on the number of READMEs learned in one run
MaxLearns == 3

MaxLearnsDeep == 4

MaxLearnsWide == 1


\* the repositories, READMEs and analysis records one run draws its calls from
Worlds ==
  {[repos |-> {"app"}, envs |-> {"UL", "UUU"}, analyses |-> {"complete"},
    cap |-> MaxLearns],
   [repos |-> {"app"}, envs |-> {"U", "L"}, analyses |-> {"complete"},
    cap |-> MaxLearnsDeep],
   [repos |-> {"foo", "pylib"}, envs |-> {"U", "L"}, analyses |-> {"complete"},
    cap |-> MaxLearns],
   [repos |-> {"app", "site", "ghost"},
    envs |-> {"E2E", "Auth", "blank", "fetchFails"},
    analyses |-> {"complete"}, cap |-> MaxLearnsWide],
   [repos |-> DOMAIN Repos, envs |-> {"noReadme", "empty"}, analyses |-> Analyses,
    cap |-> MaxLearnsWide]}

(***************************************************************************)
(* Server actions (actions.ts): fetchRepoContents, fetchPackageJson and    *)
(* generateRepoReadme, with analyzeRepository and                          *)
(* generateReadmeFromAnalysis of the analysis module                       *)
(***************************************************************************)
\* getDefaultStructure: language?.toLowerCase(), "" standing for null
GetDefaultStructure(language) ==
  LET l == ToLowerCase(language) IN
    IF l = "javascript" THEN <<"package.json", "src/", "public/", "README.md", ".gitignore">>
    ELSE IF l = "typescript"
      THEN <<"package.json", "tsconfig.json", "src/", "public/", "README.md", ".gitignore">>
    ELSE IF l = "python"
      THEN <<"requirements.txt", "setup.py", "src/", "tests/", "README.md", ".gitignore">>
    ELSE IF l = "java"
      THEN <<"pom.xml", "src/main/java/", "src/test/java/", "README.md", ".gitignore">>
    ELSE IF l = "go" THEN <<"go.mod", "main.go", "pkg/", "cmd/", "README.md", ".gitignore">>
    ELSE IF l = "ruby" THEN <<"Gemfile", "lib/", "spec/", "README.md", ".gitignore">>
    ELSE IF l = "rust" THEN <<"Cargo.toml", "src/", "tests/", "README.md", ".gitignore">>
    ELSE IF l = "php"
      THEN <<"index.php", "composer.json", "css/", "js/", "templates/", "README.md",
             ".gitignore">>
    ELSE IF l = "c#" THEN <<"*.csproj", "Program.cs", "src/", "README.md", ".gitignore">>
    ELSE IF l \in {"c", "c++"}
      THEN <<"CMakeLists.txt", "Makefile", "src/", "include/", "README.md", ".gitignore">>
    ELSE <<"src/", "README.md", "LICENSE", ".gitignore">>

\* a variant that returns an empty listing as it is
FetchRepoContentsOfListing(repo, answer) ==
  IF ~repo.hasOwner \/ answer.failed
    THEN [threw |-> FALSE, value |-> GetDefaultStructure(repo.language)]
  ELSE [threw |-> FALSE, value |-> [i \in 1..Len(answer.data) |-> answer.data[i].path]]

\* fetchRepoContents of actions.ts. answer is what githubApi.fetchRepoContents
\* does: it rejects (failed), or resolves with data, the items of a listing
\* (an array, or the one object of a path that is a file, taken as a list of
\* one item). A repository without owner makes repo.owner.login throw inside
\* the try block.
FetchRepoContents(repo, answer) ==
  IF ~repo.hasOwner \/ answer.failed
    THEN [threw |-> FALSE, value |-> GetDefaultStructure(repo.language)]
  ELSE IF Len(answer.data) = 0
    THEN [threw |-> FALSE, value |-> GetDefaultStructure(repo.language)]
  ELSE [threw |-> FALSE, value |-> [i \in 1..Len(answer.data) |-> answer.data[i].path]]

\* fetchPackageJson: <<>> for null. answer is what fileExists and
\* fetchFileContent do for package.json; of the contents drawn only "{}" is
\* JSON, JSON.parse throws on the others, and every throw is caught.
FetchPackageJson(repo, answer) ==
  IF repo.language \notin {"JavaScript", "TypeScript", "javascript", "typescript"} THEN <<>>
  ELSE IF ~repo.hasOwner \/ ~answer.exists \/ answer.fetchFails THEN <<>>
  ELSE IF answer.content # "{}" THEN <<>>
  ELSE <<answer.content>>

\* analyzeRepository: it learns from the repository once more, then builds the
\* analysis record, of which the fields the synthesis is given are kept;
\* repo.owner.login throws for a repository without owner
AnalyzeRepository(store, repo, env, contents, packageJson) ==
  IF ~repo.hasOwner
    THEN [threw |-> TRUE, store |-> LearnFromRepository(store, repo, env).store]
    ELSE [threw |-> FALSE, store |-> LearnFromRepository(store, repo, env).store,
          analysis |-> [name |-> repo.name, description |-> repo.description,
                        language |-> repo.language, topics |-> repo.topics,
                        license |-> repo.license, owner |-> repo.login,
                        fullName |-> repo.full_name, structure |-> contents,
                        packageJson |-> packageJson]]

\* the document of the catch block of generateReadmeFromAnalysis
ErrorReadme(analysis) ==
  <<"# " \o (IF analysis.name # "" THEN analysis.name ELSE "Project"), "",
    IF analysis.description # "" THEN analysis.description ELSE "No description available.",
    "", "## Error", "",
    "There was an error generating the complete README. Please check the repository details and try again.",
    "">>

\* generateReadmeFromAnalysis from the repository record it builds on: made is
\* what generateReadmeFromLearning gave for that record
GenerateReadmeFromAnalysis(analysis, made) ==
  [readme |-> IF made.readme.threw THEN ErrorReadme(analysis) ELSE made.readme.lines,
   store |-> made.patterns]

\* the repository record generateReadmeFromAnalysis makes of the analysis
RepositoryOf(analysis) ==
  Repository(analysis.name, analysis.description, analysis.language, analysis.topics,
             analysis.license, IF analysis.owner # "" THEN analysis.owner ELSE "owner")

\* what generateRepoReadme returns, done being the README and the store
\* generateReadmeFromAnalysis left
Succeeded(analysis, done) ==
  [threw |-> FALSE, store |-> done.store, success |-> TRUE, readme |-> done.readme,
   analysis |-> analysis]

\* generateRepoReadme after its second learning, in analyzeRepository
Generated(analysed) ==
  IF analysed.threw THEN [threw |-> TRUE, store |-> analysed.store]
  ELSE Succeeded(analysed.analysis,
                 GenerateReadmeFromAnalysis(
                   analysed.analysis,
                   GenerateReadmeFromLearning(analysed.store, RepositoryOf(analysed.analysis),
                                              analysed.analysis)))

\* generateRepoReadme: env is what the client answers about README.md,
\* contents what it answers for the listing, package what it answers about
\* package.json
GenerateRepoReadme(store, repo, env, contents, package) ==
  IF repo.name = "" THEN [threw |-> TRUE, store |-> store]
  ELSE Generated(AnalyzeRepository(LearnFromRepository(store, repo, env).store, repo, env,
                                   FetchRepoContents(repo, contents).value,
                                   FetchPackageJson(repo, package)))

(***************************************************************************)
(* State machine                                                           *)
(***************************************************************************)
VARIABLES
  learnedPatterns,  \* the Pattern Store: category |-> sequence of patterns
  last,             \* the call that ran last
  result,           \* what that call returned or threw
  world,            \* the inputs of this run
  memory,           \* Cache.cache: key |-> entry
  localStorage,     \* the browser's localStorage: key |-> text
  now,              \* Date.now(), in milliseconds
  written,          \* history: key |-> the latest set of the key
  requestCounts,    \* the rate limiter's map: identifier |-> count and resetTime
  inFlight,         \* the learnFromRepository calls in flight: id |-> where it waits
  admitted          \* history: the calls of checkRateLimit that returned true of late

cacheVars == <<memory, localStorage, now, written>>

vars ==
  <<learnedPatterns, last, result, world, memory, localStorage, now, written, requestCounts,
    inFlight, admitted>>

RECURSIVE TotalLearned(_, _)
TotalLearned(store, categories) ==
  IF categories = {} THEN 0
  ELSE LET c == CHOOSE k \in categories : TRUE
       IN SumFrequency(store[c], 1) + TotalLearned(store, categories \ {c})

\* a cache nothing has been put in
EmptyCache ==
  /\ memory = <<>>
  /\ localStorage = <<>>
  /\ now = 0
  /\ written = <<>>

Init ==
  /\ learnedPatterns = <<>>
  /\ last = [op |-> "init"]
  /\ result = [threw |-> FALSE]
  /\ world \in Worlds
  /\ EmptyCache
  /\ requestCounts = <<>>
  /\ inFlight = <<>>
  /\ admitted = <<>>

Learn(r, e) ==
  LET out == LearnFromRepository(learnedPatterns, Repos[r], Envs[e]) IN
    /\ TotalLearned(out.store, DOMAIN out.store) <= world.cap
    /\ learnedPatterns' = out.store
    /\ last' = [op |-> "learn", repo |-> r, arg |-> e]
    /\ result' = [threw |-> out.threw]
    /\ UNCHANGED <<admitted, inFlight, world, cacheVars, requestCounts>>

Best(r) ==
  LET out == GetBestPatternForRepository(learnedPatterns, Repos[r]) IN
    /\ learnedPatterns' = out.patterns
    /\ last' = [op |-> "best", repo |-> r, category |-> CategorizeRepository(Repos[r])]
    /\ result' = [threw |-> FALSE, found |-> out.found]
    /\ UNCHANGED <<admitted, inFlight, world, cacheVars, requestCounts>>

Synthesize(r, a) ==
  LET out == GenerateReadmeFromLearning(learnedPatterns, Repos[r], a) IN
    /\ learnedPatterns' = out.patterns
    /\ last' = [op |-> "synth", repo |-> r, arg |-> a,
                category |-> CategorizeRepository(Repos[r])]
    /\ result' = out.readme
    /\ UNCHANGED <<admitted, inFlight, world, cacheVars, requestCounts>>

Next ==
  \/ \E r \in world.repos, e \in world.envs : Learn(r, e)
  \/ \E r \in world.repos : Best(r)
  \/ \E r \in world.repos, a \in world.analyses : Synthesize(r, a)

Spec == Init /\ [][Next]_vars

TypeOK ==
  /\ world \in Worlds
  /\ last.op \in {"init", "learn", "best", "synth"}
  /\ result.threw \in BOOLEAN
  /\ \A c \in DOMAIN learnedPatterns : Len(learnedPatterns[c]) >= 1

(***************************************************************************)
(* The functions of the learning module applied to drawn inputs: Init      *)
(* draws one call, the action performs it                                  *)
(***************************************************************************)
\* titles and fragments of titles, the empty string included
Strings ==
  {"", "a", "ab", "ba", "abc", "api", "sage", "usage", "Usage", "usages", "setup"}

SimilarityCalls ==
  {[op |-> "call", fn |-> "calculateStringSimilarity", str1 |-> a, str2 |-> b] :
     a \in Strings, b \in Strings}

\* documents to parse: the READMEs above and some with text before, between
\* and instead of headings
Documents ==
  [d \in DOMAIN Readmes \cup {"intro", "lookalikes", "text", "late", "badgesFirst",
                              "secondLevel"} |->
     IF d = "badgesFirst"
       THEN <<"![build](https://img.shields.io/x.svg)", "# Demo", "## Usage">>
     ELSE IF d = "secondLevel"
       THEN <<"## Demo", "![build](https://img.shields.io/x.svg)", "## License">>
     ELSE IF d = "intro"
       THEN <<"", "  ", "Some intro", "more", "## A", "", "### B", "tail">>
     ELSE IF d = "lookalikes"
       THEN <<"#", "####### seven", "#nospace", "## Real", "#  x">>
     ELSE IF d = "text" THEN <<"just text", "">>
     ELSE IF d = "late" THEN <<"", "\t", "# Top", "x", "## Second", "## Third">>
     ELSE Readmes[d]]

ParseCalls ==
  {[op |-> "call", fn |-> "analyzeReadmeStructure", readme |-> d] : d \in DOMAIN Documents}

\* calls that take two lists of sections, each parsed from a document
SectionCalls ==
  {[op |-> "call", fn |-> f, first |-> d1, second |-> d2] :
     f \in {"calculateSectionSimilarity", "mergeSections"},
     d1 \in DOMAIN Documents, d2 \in DOMAIN Documents}

\* section titles to fill in, for a repository with and without description
Titles ==
  {"", "Introduction", "INTRODUCTION", "Introduction to X", "Introduction to the API",
   "Installation", "Usage", "License", "Roadmap"}

ContentCalls ==
  {[op |-> "call", fn |-> "generateSectionContent", title |-> t, repo |-> r] :
     t \in Titles, r \in {"app", "site"}}

\* synthesis from the pattern parsed from a document
PatternCalls ==
  {[op |-> "call", fn |-> "generateReadmeFromPattern", readme |-> d, repo |-> r] :
     d \in {"Auth", "badgesFirst", "secondLevel", "E2E", "late"}, r \in {"app", "site"}}

\* the first place of sub in s from place i on, 0 when there is none
RECURSIVE IndexOf(_, _, _)
IndexOf(s, sub, i) ==
  IF i + Len(sub) - 1 > Len(s) THEN 0
  ELSE IF SubSeq(s, i, i + Len(sub) - 1) = sub THEN i
  ELSE IndexOf(s, sub, i + 1)

\* new URL(url) for the URLs of the calls, which have no port, user, query or
\* fragment: a text without scheme throws; the host is lower-cased and the
\* path is "/" when nothing follows the host
NewURL(url) ==
  IF IndexOf(url, "://", 1) <= 1 THEN [threw |-> TRUE]
  ELSE IF IndexOf(url, "/", IndexOf(url, "://", 1) + 3) = 0
    THEN [threw |-> FALSE,
          hostname |-> ToLowerCase(SubSeq(url, IndexOf(url, "://", 1) + 3, Len(url))),
          pathname |-> "/"]
  ELSE [threw |-> FALSE,
        hostname |-> ToLowerCase(SubSeq(url, IndexOf(url, "://", 1) + 3,
                                        IndexOf(url, "/", IndexOf(url, "://", 1) + 3) - 1)),
        pathname |-> SubSeq(url, IndexOf(url, "/", IndexOf(url, "://", 1) + 3), Len(url))]

\* pathname.split("/").filter(Boolean), cur being the segment in hand
RECURSIVE PathSegments(_, _, _)
PathSegments(pathname, i, cur) ==
  IF i > Len(pathname) THEN (IF cur = "" THEN <<>> ELSE <<cur>>)
  ELSE IF Char(pathname, i) = "/"
    THEN (IF cur = "" THEN <<>> ELSE <<cur>>) \o PathSegments(pathname, i + 1, "")
  ELSE PathSegments(pathname, i + 1, cur \o Char(pathname, i))

\* what the promise of parseGitHubUrl resolves to; "" stands for null
ParseGitHubUrl(url) ==
  IF NewURL(url).threw THEN [owner |-> "", repo |-> ""]
  ELSE IF ~Includes(NewURL(url).hostname, "github.com") THEN [owner |-> "", repo |-> ""]
  ELSE IF Len(PathSegments(NewURL(url).pathname, 1, "")) >= 2
    THEN [owner |-> PathSegments(NewURL(url).pathname, 1, "")[1],
          repo |-> PathSegments(NewURL(url).pathname, 1, "")[2]]
  ELSE [owner |-> "", repo |-> ""]

\* an async function returns a promise: what it resolves to is reached with
\* await only, and the promise itself has no property of the value's names
Promise(value) == [resolved |-> value]

\* const { name } = object; "" stands for undefined
Property(object, name) == IF name \in DOMAIN object THEN object[name] ELSE ""

\* githubApi.fetchRepo(owner, repo), api telling whether GitHub has it
FetchRepoOf(owner, repo, api) ==
  IF api = "found"
    THEN [threw |-> FALSE, value |-> [owner |-> owner, name |-> repo]]
    ELSE [threw |-> TRUE, message |-> "Repository not found"]

\* fetchRepoByUrl: parseGitHubUrl(url) is destructured without await
FetchRepoByUrl(url, api) ==
  IF \/ Property(Promise(ParseGitHubUrl(url)), "owner") = ""
     \/ Property(Promise(ParseGitHubUrl(url)), "repo") = ""
    THEN [threw |-> TRUE, message |-> "Invalid GitHub repository URL"]
    ELSE FetchRepoOf(Property(Promise(ParseGitHubUrl(url)), "owner"),
                     Property(Promise(ParseGitHubUrl(url)), "repo"), api)

\* the URLs given to fetchRepoByUrl
Urls ==
  {"https://github.com/alice/foo", "https://github.com/alice/foo/tree/main",
   "https://github.com/alice", "https://github.com", "https://gitlab.com/alice/foo",
   "github.com/alice/foo", "https://GitHub.com//alice//foo/"}

UrlCalls ==
  {[op |-> "call", fn |-> "fetchRepoByUrl", url |-> u, api |-> a] :
     u \in Urls, a \in {"found", "missing"}}

\* what a fetch of fetchWithRetry may meet: no network, a server error, a
\* success, and GitHub's limit exhausted until 2 or 10 seconds after time 0
RetryAnswers ==
  {NetworkFailure, Response(500, "", <<>>, ""), Response(200, "", <<>>, "data"),
   Response(403, "0", <<2>>, ""), Response(403, "0", <<10>>, "")}

\* the calls of fetchWithRetry: the answers of its fetches, one after another,
\* and the time of the call
RetryCalls ==
  {[op |-> "call", fn |-> "fetchWithRetry", script |-> <<a, b, c, d>>, at |-> t] :
     a \in RetryAnswers, b \in RetryAnswers, c \in RetryAnswers, d \in RetryAnswers,
     t \in {0, 3000}}

FunctionCalls ==
  SimilarityCalls \cup ParseCalls \cup SectionCalls \cup ContentCalls \cup PatternCalls
    \cup RetryCalls \cup UrlCalls

\* no repository, README or analysis takes part in these runs
NoWorld == [repos |-> {}, envs |-> {}, analyses |-> {}, cap |-> 0]

InitFunctions ==
  /\ learnedPatterns = <<>>
  /\ last \in FunctionCalls
  /\ result = [threw |-> FALSE]
  /\ world = NoWorld
  /\ EmptyCache
  /\ requestCounts = <<>>
  /\ inFlight = <<>>
  /\ admitted = <<>>

StringSimilarity ==
  /\ last.op = "call"
  /\ last.fn = "calculateStringSimilarity"
  /\ last' = [last EXCEPT !.op = "return"]
  /\ result' = [threw |-> FALSE,
                value |-> CalculateStringSimilarity(last.str1, last.str2)]
  /\ UNCHANGED <<admitted, inFlight, learnedPatterns, world, cacheVars, requestCounts>>

AnalyzeReadme ==
  /\ last.op = "call"
  /\ last.fn = "analyzeReadmeStructure"
  /\ last' = [last EXCEPT !.op = "return"]
  /\ result' = [threw |-> FALSE, value |-> AnalyzeReadmeStructure(Documents[last.readme])]
  /\ UNCHANGED <<admitted, inFlight, learnedPatterns, world, cacheVars, requestCounts>>

SectionSimilarity ==
  /\ last.op = "call"
  /\ last.fn = "calculateSectionSimilarity"
  /\ last' = [last EXCEPT !.op = "return"]
  /\ result' = [threw |-> FALSE,
                value |-> CalculateSectionSimilarity(ParseSections(Documents[last.first]),
                                                     ParseSections(Documents[last.second]))]
  /\ UNCHANGED <<admitted, inFlight, learnedPatterns, world, cacheVars, requestCounts>>

\* mergeSections changes its first argument in place: the value is that list
Merge ==
  /\ last.op = "call"
  /\ last.fn = "mergeSections"
  /\ last' = [last EXCEPT !.op = "return"]
  /\ result' = [threw |-> FALSE,
                value |-> MergeSections(ParseSections(Documents[last.first]),
                                        ParseSections(Documents[last.second]))]
  /\ UNCHANGED <<admitted, inFlight, learnedPatterns, world, cacheVars, requestCounts>>

SectionContent ==
  /\ last.op = "call"
  /\ last.fn = "generateSectionContent"
  /\ last' = [last EXCEPT !.op = "return"]
  /\ result' = GenerateSectionContent(last.title, Repos[last.repo], "complete")
  /\ UNCHANGED <<admitted, inFlight, learnedPatterns, world, cacheVars, requestCounts>>

ReadmeFromPattern ==
  /\ last.op = "call"
  /\ last.fn = "generateReadmeFromPattern"
  /\ last' = [last EXCEPT !.op = "return"]
  /\ result' = GenerateReadmeFromPattern(Repos[last.repo], "complete",
                                        AnalyzeReadmeStructure(Documents[last.readme])[1])
  /\ UNCHANGED <<admitted, inFlight, learnedPatterns, world, cacheVars, requestCounts>>

Retry ==
  /\ last.op = "call"
  /\ last.fn = "fetchWithRetry"
  /\ last' = [last EXCEPT !.op = "return"]
  /\ result' = FetchWithRetry(last.script, 1, retryCount, last.at)
  /\ UNCHANGED <<admitted, inFlight, learnedPatterns, world, cacheVars, requestCounts>>

RepoByUrl ==
  /\ last.op = "call"
  /\ last.fn = "fetchRepoByUrl"
  /\ last' = [last EXCEPT !.op = "return"]
  /\ result' = FetchRepoByUrl(last.url, last.api)
  /\ UNCHANGED <<admitted, inFlight, learnedPatterns, world, cacheVars, requestCounts>>

NextFunctions ==
  \/ RepoByUrl
  \/ Retry
  \/ ReadmeFromPattern
  \/ StringSimilarity
  \/ AnalyzeReadme
  \/ SectionSimilarity
  \/ Merge
  \/ SectionContent

SpecFunctions == InitFunctions /\ [][NextFunctions]_vars

(***************************************************************************)
(* The cache: set, get, clear, the clock, and a page reload, which starts  *)
(* a new memory map over the localStorage that is left                     *)
(***************************************************************************)
CacheKeys == {"key1", "key2"}

CacheValues == {"value1", "value2"}

\* ttlSeconds of a set
Ttls == {1, 2}

\* the clock advances a second at a time, MaxTime times at most
Tick == 1000

MaxTime == 3

\* what other code keeps in localStorage
ForeignItems == ("theme" :> "dark") @@ ("github_cache" :> "{}")

\* with localStorage (a browser) and without (on the server)
CacheWorlds == {[localStorage |-> TRUE], [localStorage |-> FALSE]}

TheCache ==
  [memory |-> memory, storage |-> localStorage, available |-> world.localStorage, now |-> now]

InitCache ==
  /\ learnedPatterns = <<>>
  /\ last = [op |-> "init"]
  /\ result = [threw |-> FALSE]
  /\ world \in CacheWorlds
  /\ memory = <<>>
  /\ localStorage = IF world.localStorage THEN ForeignItems ELSE <<>>
  /\ now = 0
  /\ written = <<>>
  /\ requestCounts = <<>>
  /\ inFlight = <<>>
  /\ admitted = <<>>

Set(key, value, ttlSeconds) ==
  LET c == CacheSet(TheCache, key, value, ttlSeconds) IN
    /\ memory' = c.memory
    /\ localStorage' = c.storage
    /\ written' = (key :> [value |-> value, at |-> now, ttlSeconds |-> ttlSeconds]) @@ written
    /\ last' = [op |-> "set", key |-> key, value |-> value, ttlSeconds |-> ttlSeconds]
    /\ result' = [threw |-> FALSE]
    /\ UNCHANGED <<admitted, inFlight, learnedPatterns, requestCounts, world, now>>

Get(key) ==
  LET got == CacheGet(TheCache, key) IN
    /\ memory' = got.cache.memory
    /\ localStorage' = got.cache.storage
    /\ last' = [op |-> "get", key |-> key, inMemory |-> key \in DOMAIN memory]
    /\ result' = [threw |-> FALSE, value |-> got.value]
    /\ UNCHANGED <<admitted, inFlight, learnedPatterns, requestCounts, world, now, written>>

Clear ==
  LET c == CacheClear(TheCache) IN
    /\ memory' = c.memory
    /\ localStorage' = c.storage
    /\ written' = <<>>
    /\ last' = [op |-> "clear", keys |-> DOMAIN written, inMemory |-> DOMAIN memory]
    /\ result' = [threw |-> FALSE]
    /\ UNCHANGED <<admitted, inFlight, learnedPatterns, requestCounts, world, now>>

Advance ==
  /\ now < MaxTime * Tick
  /\ now' = now + Tick
  /\ last' = [op |-> "advance"]
  /\ result' = [threw |-> FALSE]
  /\ UNCHANGED <<admitted, inFlight, learnedPatterns, requestCounts, world, memory, localStorage,
                 written>>

\* the module is loaded anew: what was only in memory is gone
Reload ==
  /\ memory' = <<>>
  /\ written' = IF world.localStorage THEN written ELSE <<>>
  /\ last' = [op |-> "reload"]
  /\ result' = [threw |-> FALSE]
  /\ UNCHANGED <<admitted, inFlight, learnedPatterns, requestCounts, world, localStorage, now>>

NextCache ==
  \/ \E k \in CacheKeys, v \in CacheValues, t \in Ttls : Set(k, v, t)
  \/ \E k \in CacheKeys : Get(k)
  \/ Clear
  \/ Advance
  \/ Reload

SpecCache == InitCache /\ [][NextCache]_vars

(***************************************************************************)
(* The GitHub client: calls of its fetch methods, each answered by a       *)
(* script of responses, and the clock                                      *)
(***************************************************************************)
\* the responses of the scripts
Answers ==
  [data |-> Response(200, "", <<>>, "data"),
   hi |-> Response(200, "", <<>>, "SGk="),
   emptyFile |-> Response(200, "", <<>>, ""),
   notFound |-> Response(404, "", <<>>, ""),
   forbidden |-> Response(403, "59", <<>>, ""),
   limited |-> Response(403, "0", <<>>, ""),
   limitedSoon |-> Response(403, "0", <<2>>, ""),
   limitedLong |-> Response(403, "0", <<3600>>, ""),
   serverError |-> Response(500, "", <<>>, ""),
   down |-> NetworkFailure]

\* the clock is moved MaxPasses times at most, by the step of the run
MaxPasses == 3

\* one run: with or without localStorage, the methods called for owner
\* "alice", repository "foo" and path "README.md", the scripts that answer
\* them, the step of the clock in milliseconds
ApiWorlds ==
  {[localStorage |-> TRUE, methods |-> {"fetchFileContent"}, step |-> 300 * 1000,
    scripts |-> {<<Answers.hi>>, <<Answers.emptyFile>>, <<Answers.notFound>>}],
   [localStorage |-> FALSE, methods |-> {"fetchUserRepos", "fetchUserProfile"},
    step |-> 300 * 1000, scripts |-> {<<Answers.data>>, <<Answers.notFound>>}],
   [localStorage |-> FALSE, methods |-> {"fetchRepo", "fetchRepoContents"},
    step |-> 300 * 1000, scripts |-> {<<Answers.data>>, <<Answers.forbidden>>}],
   [localStorage |-> FALSE, methods |-> {"fetchRepo"}, step |-> 60 * 1000,
    scripts |-> {<<Answers.down>>, <<Answers.serverError, Answers.data>>,
                 <<Answers.down, Answers.serverError>>,
                 <<Answers.limitedSoon, Answers.data>>,
                 <<Answers.limited>>, <<Answers.limitedLong>>}],
   [localStorage |-> FALSE, methods |-> {"fetchUserRepos"}, step |-> 30 * 1000,
    scripts |-> {<<Answers.notFound>>}]}

InitApi ==
  /\ learnedPatterns = <<>>
  /\ last = [op |-> "init"]
  /\ result = [threw |-> FALSE]
  /\ world \in ApiWorlds
  /\ EmptyCache
  /\ requestCounts = <<>>
  /\ inFlight = <<>>
  /\ admitted = <<>>

\* the state a call leaves, a being what the method answered
Answered(name, script, m, a) ==
  /\ memory' = a.c.memory
  /\ localStorage' = a.c.storage
  /\ now' = a.c.now
  /\ written' = IF a.stored
                  THEN (m.cacheKey :> [value |-> a.value, at |-> a.c.now,
                                       ttlSeconds |-> m.ttlSeconds]) @@ written
                  ELSE written
  /\ requestCounts' = a.counts
  /\ last' = [op |-> "api", method |-> name, script |-> script, cacheKey |-> m.cacheKey,
              identifier |-> m.identifier]
  /\ result' = [threw |-> a.threw, value |-> a.value, fetches |-> a.fetches]
  /\ UNCHANGED <<admitted, inFlight, learnedPatterns, world>>

ApiCall(name, script) ==
  /\ now <= MaxPasses * world.step
  /\ Answered(name, script, Method(name, "alice", "foo", "README.md"),
              Fetch(TheCache, requestCounts, Method(name, "alice", "foo", "README.md"), script))

Pass ==
  /\ now < MaxPasses * world.step
  /\ now' = now + world.step
  /\ last' = [op |-> "pass"]
  /\ result' = [threw |-> FALSE]
  /\ UNCHANGED <<admitted, inFlight, learnedPatterns, requestCounts, world, memory, localStorage,
                 written>>

NextApi ==
  \/ \E name \in world.methods, script \in world.scripts : ApiCall(name, script)
  \/ Pass

SpecApi == InitApi /\ [][NextApi]_vars

(***************************************************************************)
(* The rate limiter by itself: calls of checkRateLimit as time passes      *)
(***************************************************************************)
LimiterWorlds ==
  {[identifiers |-> {"user_alice"}, step |-> 30 * 1000],
   [identifiers |-> {"user_alice", "repo_alice_foo"}, step |-> 90 * 1000]}

InitLimiter ==
  /\ learnedPatterns = <<>>
  /\ last = [op |-> "init"]
  /\ result = [threw |-> FALSE]
  /\ world \in LimiterWorlds
  /\ EmptyCache
  /\ requestCounts = <<>>
  /\ inFlight = <<>>
  /\ admitted = <<>>

\* the history of the limiter: identifier |-> the times, in order, of its calls
\* of checkRateLimit that returned true; it keeps those of the minute before t
LastMinute(history, t) ==
  [identifier \in DOMAIN history |->
     SelectSeq(history[identifier], LAMBDA at : at + RATE_LIMIT_WINDOW >= t)]

Admit(history, identifier, t) ==
  IF identifier \in DOMAIN history
    THEN [history EXCEPT ![identifier] = Append(@, t)]
    ELSE (identifier :> <<t>>) @@ history

\* one call of checkRateLimit(identifier) at Date.now() = now
CheckLimit(identifier) ==
  /\ requestCounts' = CheckRateLimit(requestCounts, identifier, now).counts
  /\ admitted' = IF CheckRateLimit(requestCounts, identifier, now).allowed
                   THEN Admit(admitted, identifier, now)
                   ELSE admitted
  /\ last' = [op |-> "checkRateLimit", identifier |-> identifier, at |-> now]
  /\ result' = [threw |-> FALSE,
                value |-> CheckRateLimit(requestCounts, identifier, now).allowed]
  /\ UNCHANGED <<inFlight, learnedPatterns, world, cacheVars>>

Elapse ==
  /\ now < MaxPasses * world.step
  /\ now' = now + world.step
  /\ admitted' = LastMinute(admitted, now + world.step)
  /\ last' = [op |-> "elapse"]
  /\ result' = [threw |-> FALSE]
  /\ UNCHANGED <<inFlight, learnedPatterns, requestCounts, world, memory, localStorage,
                 written>>

NextLimiter ==
  \/ \E identifier \in world.identifiers : CheckLimit(identifier)
  \/ Elapse

SpecLimiter == InitLimiter /\ [][NextLimiter]_vars

(***************************************************************************)
(* The server actions over the Pattern Store, the GitHub client being what *)
(* answers them                                                            *)
(***************************************************************************)
\* what githubApi.fetchRepoContents does for the root of a repository
ContentsAnswers ==
  [fails |-> [failed |-> TRUE],
   empty |-> [failed |-> FALSE, data |-> <<>>],
   listing |-> [failed |-> FALSE,
                data |-> <<[path |-> "src/index.js"], [path |-> "package.json"]>>],
   file |-> [failed |-> FALSE, data |-> <<[path |-> "README.md"]>>]]

\* what fileExists and fetchFileContent do for package.json
PackageAnswers ==
  [missing |-> [exists |-> FALSE, fetchFails |-> FALSE, content |-> ""],
   fails |-> [exists |-> TRUE, fetchFails |-> TRUE, content |-> ""],
   invalid |-> [exists |-> TRUE, fetchFails |-> FALSE, content |-> "oops"],
   valid |-> [exists |-> TRUE, fetchFails |-> FALSE, content |-> "{}"]]

\* the repositories READMEs are generated for and those listed, the answers
\* of the client, the number of READMEs learned at most
ActionWorlds ==
  {[repos |-> {"app", "ghost", "noname"}, listed |-> DOMAIN Repos,
    envs |-> {"noReadme", "UL"}, contents |-> DOMAIN ContentsAnswers,
    packages |-> {"missing", "valid"}, cap |-> MaxLearnsDeep]}

InitActions ==
  /\ learnedPatterns = <<>>
  /\ last = [op |-> "init"]
  /\ result = [threw |-> FALSE]
  /\ world \in ActionWorlds
  /\ EmptyCache
  /\ requestCounts = <<>>
  /\ inFlight = <<>>
  /\ admitted = <<>>

\* the state a call of generateRepoReadme leaves, out being its outcome
Completed(call, out) ==
  /\ TotalLearned(out.store, DOMAIN out.store) <= world.cap
  /\ learnedPatterns' = out.store
  /\ last' = call
  /\ result' = [x \in DOMAIN out \ {"store"} |-> out[x]]
  /\ UNCHANGED <<admitted, inFlight, world, cacheVars, requestCounts>>

GenerateReadme(r, e, c, p) ==
  Completed([op |-> "generateRepoReadme", repo |-> r, arg |-> e, contents |-> c,
             package |-> p],
            GenerateRepoReadme(learnedPatterns, Repos[r], Envs[e], ContentsAnswers[c],
                               PackageAnswers[p]))

FetchContents(r, c) ==
  /\ last' = [op |-> "fetchRepoContents", repo |-> r, contents |-> c]
  /\ result' = FetchRepoContents(Repos[r], ContentsAnswers[c])
  /\ UNCHANGED <<admitted, inFlight, learnedPatterns, world, cacheVars, requestCounts>>

NextActions ==
  \/ \E r \in world.repos, e \in world.envs, c \in world.contents, p \in world.packages :
       GenerateReadme(r, e, c, p)
  \/ \E r \in world.listed, c \in world.contents : FetchContents(r, c)

SpecActions == InitActions /\ [][NextActions]_vars

(***************************************************************************)
(* learnFromRepository as the event loop runs it: several calls in flight, *)
(* each stopping at its three awaits; what stands between two awaits, and  *)
(* after the last one, runs without interruption                           *)
(***************************************************************************)
\* the number of calls in flight at most
MaxInFlight == 3

ConcurrentWorlds ==
  {[repos |-> {"app"}, envs |-> {"U", "UL"}],
   [repos |-> {"app"}, envs |-> {"UL", "fetchFails", "noReadme"}],
   [repos |-> {"app", "foo"}, envs |-> {"U"}],
   [repos |-> {"app", "ghost"}, envs |-> {"U"}]}

InitConcurrent ==
  /\ learnedPatterns = <<>>
  /\ last = [op |-> "init"]
  /\ result = [threw |-> FALSE]
  /\ world \in ConcurrentWorlds
  /\ EmptyCache
  /\ requestCounts = <<>>
  /\ inFlight = <<>>
  /\ admitted = <<>>

\* the state a step of call id leaves, the calls being numbered in the order
\* in which they begin, and pc being the await the call stops at next;
\* turn is history: the rank of the call among those that reached the store
Stopped(id, call, pc, store) ==
  /\ inFlight' = (id :> [call EXCEPT !.pc = pc,
                                     !.turn = IF pc = "updated"
                                                THEN 1 + Cardinality({i \in DOMAIN inFlight :
                                                                       inFlight[i].turn > 0})
                                                ELSE 0]) @@ inFlight
  /\ learnedPatterns' = store
  /\ last' = [op |-> "learning", id |-> id, pc |-> pc]
  /\ result' = [threw |-> FALSE]
  /\ UNCHANGED <<world, cacheVars, requestCounts, admitted>>

\* the call up to await githubApi.fileExists(...): repo.owner.login throws
\* for a repository without owner and the catch block ends the call
Begin(id, r, e) ==
  /\ id = Cardinality(DOMAIN inFlight) + 1
  /\ Stopped(id, [repo |-> r, env |-> e, pc |-> "", turn |-> 0],
             IF Repos[r].hasOwner THEN "fileExists" ELSE "returned", learnedPatterns)

\* from the answer of fileExists to await githubApi.fetchFileContent(...)
ExistsResolved(id) ==
  /\ id \in DOMAIN inFlight
  /\ inFlight[id].pc = "fileExists"
  /\ Stopped(id, inFlight[id],
             IF Envs[inFlight[id].env].readmeExists THEN "fetchFileContent" ELSE "returned",
             learnedPatterns)

\* from the answer of fetchFileContent to await analyzeReadmeStructure(...)
ContentResolved(id) ==
  /\ id \in DOMAIN inFlight
  /\ inFlight[id].pc = "fetchFileContent"
  /\ Stopped(id, inFlight[id],
             IF Envs[inFlight[id].env].fetchFails THEN "returned" ELSE "analyzeReadmeStructure",
             learnedPatterns)

\* from the pattern to the end: the category, the read of its list and the
\* update, with no await among them
PatternResolved(id) ==
  /\ id \in DOMAIN inFlight
  /\ inFlight[id].pc = "analyzeReadmeStructure"
  /\ Stopped(id, inFlight[id], "updated",
             LearnPattern(learnedPatterns, CategorizeRepository(Repos[inFlight[id].repo]),
                          Envs[inFlight[id].env].id,
                          AnalyzeReadmeStructure(Envs[inFlight[id].env].content)).store)

NextConcurrent ==
  \/ \E id \in 1..MaxInFlight, r \in world.repos, e \in world.envs : Begin(id, r, e)
  \/ \E id \in 1..MaxInFlight : ExistsResolved(id)
  \/ \E id \in 1..MaxInFlight : ContentResolved(id)
  \/ \E id \in 1..MaxInFlight : PatternResolved(id)

SpecConcurrent == InitConcurrent /\ [][NextConcurrent]_vars

(***************************************************************************)
(* Vocabulary of the properties                                            *)
(***************************************************************************)
Elements(seq) == {seq[i] : i \in 1..Len(seq)}

\* the READMEs learned into one category, pattern by pattern
RECURSIVE LearnedFrom(_, _)
LearnedFrom(patterns, i) ==
  IF i > Len(patterns) THEN <<>> ELSE patterns[i].from \o LearnedFrom(patterns, i + 1)

\* g is the part of the key c before its first "-"
IsGeneralOf(g, c) ==
  /\ ~Includes(g, "-")
  /\ \/ g = c
     \/ Len(c) > Len(g) /\ SubSeq(c, 1, Len(g) + 1) = g \o "-"

\* the patterns a query for category c is answered from
AnsweringLists(store, c) ==
  IF c \in DOMAIN store THEN {store[c]}
  ELSE {store[g] : g \in {k \in DOMAIN store : IsGeneralOf(k, c)}}

MaximalFrequency(p, patterns) ==
  /\ p \in Elements(patterns)
  /\ \A q \in Elements(patterns) : q.frequency <= p.frequency

\* the categories whose list a step changed or created
ChangedCategories ==
  {c \in DOMAIN learnedPatterns' :
     c \notin DOMAIN learnedPatterns \/ learnedPatterns'[c] # learnedPatterns[c]}

(***************************************************************************)
(* C1: learning the same README twice into a category that was empty       *)
(* leaves exactly one pattern there, with frequency 2.                     *)
(***************************************************************************)
C1_SameTwiceMerges ==
  \A c \in DOMAIN learnedPatterns :
    LET from == LearnedFrom(learnedPatterns[c], 1) IN
      (Len(from) = 2 /\ from[1] = from[2])
        => /\ Len(learnedPatterns[c]) = 1
           /\ learnedPatterns[c][1].frequency = 2

C1_Witness ==
  \E c \in DOMAIN learnedPatterns :
    /\ Len(learnedPatterns[c]) = 1
    /\ learnedPatterns[c][1].from = <<"UUU", "UUU">>
    /\ learnedPatterns[c][1].frequency = 2

(***************************************************************************)
(* C2: a learn that changes the store changes one category's list in one   *)
(* place: it merges into a stored pattern more than 0.7 similar to the     *)
(* incoming one if there is any, else appends the incoming pattern with    *)
(* frequency 1.  As claimed the merge target is a pattern of highest       *)
(* similarity; as amended it is the first one in the list above 0.7.       *)
(***************************************************************************)
C2_Learned(Target(_, _, _)) ==
  (last'.op = "learn" /\ learnedPatterns' # learnedPatterns) =>
    /\ DOMAIN learnedPatterns \subseteq DOMAIN learnedPatterns'
    /\ Cardinality(ChangedCategories) = 1
    /\ \A c \in ChangedCategories :
         LET old == IF c \in DOMAIN learnedPatterns THEN learnedPatterns[c] ELSE <<>>
             new == learnedPatterns'[c]
             incoming == ParseSections(Readmes[last'.arg])
             sim == [i \in 1..Len(old) |-> CalculateSectionSimilarity(old[i].sections, incoming)]
             above == {i \in 1..Len(old) : FracLess(PatternThreshold, sim[i])}
         IN IF above # {}
              THEN /\ Len(new) = Len(old)
                   /\ \E i \in above :
                        /\ Target(i, above, sim)
                        /\ new[i].frequency = old[i].frequency + 1
                        /\ \A k \in 1..Len(old) : k # i => new[k] = old[k]
              ELSE /\ Len(new) = Len(old) + 1
                   /\ SubSeq(new, 1, Len(old)) = old
                   /\ new[Len(new)].frequency = 1
                   /\ new[Len(new)].sections = incoming

C2_MostSimilar(i, above, sim) == \A k \in DOMAIN sim : FracLeq(sim[k], sim[i])

C2_FirstAbove(i, above, sim) == \A k \in above : i <= k

C3_BestIsEarliestMostFrequent ==
  (last.op = "best" /\ result.found # <<>>) =>
    \A patterns \in AnsweringLists(learnedPatterns, last.category) :
      /\ MaximalFrequency(result.found[1], patterns)
      /\ \A q \in Elements(patterns) :
           q.frequency = result.found[1].frequency => result.found[1].born <= q.born

(***************************************************************************)
(* C4: a query returns null when neither the category nor its general      *)
(* category (the key before the first "-") has patterns; otherwise it      *)
(* returns a pattern of maximal frequency of the category itself, or of    *)
(* the general category when the category has none of its own.             *)
(***************************************************************************)
C4_BestPatternFor ==
  last.op = "best" =>
    LET lists == AnsweringLists(learnedPatterns, last.category) IN
      IF lists = {} THEN result.found = <<>>
      ELSE /\ result.found # <<>>
           /\ \A patterns \in lists : MaximalFrequency(result.found[1], patterns)

\* answered from the general category, which holds patterns of two frequencies
C4_Witness ==
  /\ last.op = "best"
  /\ last.category = "Python-ml"
  /\ DOMAIN learnedPatterns = {"Python"}
  /\ Len(learnedPatterns["Python"]) = 2
  /\ result.found # <<>>
  /\ result.found[1].frequency = 2

(***************************************************************************)
(* C5: a query and a synthesis leave the Pattern Store as it was.          *)
(***************************************************************************)
C5_QueriesLeaveStore ==
  [][last'.op \in {"best", "synth"} => learnedPatterns' = learnedPatterns]_vars

(***************************************************************************)
(* C6: the category key is the base followed by at most one topic suffix   *)
(* and at most one name suffix, each the first that applies.  As claimed   *)
(* the base is the primary language in lower case; as amended it is the    *)
(* primary language as the repository record spells it ("unknown" when     *)
(* there is none), so the repository of the example gets "Python-ml".      *)
(***************************************************************************)
HasTopic(repo, names) == \E i \in 1..Len(repo.topics) : ToLowerCase(repo.topics[i]) \in names

Mentions(repo, words) ==
  \E w \in words : Includes(ToLowerCase(repo.name \o " " \o repo.description), w)

C6_Suffixes(repo, t, n) ==
  LET frontend == HasTopic(repo, {"react", "vue", "angular"})
      backend == HasTopic(repo, {"api", "backend", "server"})
      ml == HasTopic(repo, {"ml", "ai", "machine-learning", "data-science"})
      list == Mentions(repo, {"awesome", "list"})
      template == Mentions(repo, {"boilerplate", "starter", "template"})
      docs == Mentions(repo, {"docs", "documentation"})
  IN /\ (t = "-frontend") <=> frontend
     /\ (t = "-backend") <=> (~frontend /\ backend)
     /\ (t = "-ml") <=> (~frontend /\ ~backend /\ ml)
     /\ (n = "-list") <=> list
     /\ (n = "-template") <=> (~list /\ template)
     /\ (n = "-docs") <=> (~list /\ ~template /\ docs)

C6_Key(base) ==
  last.op \in {"best", "synth"} =>
    \E t \in {"", "-frontend", "-backend", "-ml"}, n \in {"", "-list", "-template", "-docs"} :
      /\ C6_Suffixes(Repos[last.repo], t, n)
      /\ last.category = base \o t \o n

RECURSIVE InOrder(_, _, _, _)
InOrder(lines, i, wanted, k) ==
  IF k > Len(wanted) THEN TRUE
  ELSE IF i > Len(lines) THEN FALSE
  ELSE IF lines[i] = wanted[k] THEN InOrder(lines, i + 1, wanted, k + 1)
  ELSE InOrder(lines, i + 1, wanted, k)

C7_Skeleton(title) ==
  (last.op = "synth" /\ AnsweringLists(learnedPatterns, last.category) = {}) =>
    /\ ~result.threw
    /\ Len(result.lines) > 0
    /\ result.lines[1] = "# " \o title
    /\ InOrder(result.lines, 2, <<"## Installation", "## Usage", "## Features", "## License">>, 1)

C7_SkeletonTitledByName == C7_Skeleton(Repos[last.repo].name)

C7_SkeletonTitledByNameOrDefault ==
  C7_Skeleton(IF Repos[last.repo].name = "" THEN "Repository" ELSE Repos[last.repo].name)

\* no analysis record at all
C7_Witness ==
  /\ last.op = "synth"
  /\ last.arg = "undefined"
  /\ Repos[last.repo].name = "site"
  /\ ~result.threw
  /\ result.lines[1] = "# site"

(***************************************************************************)
(* C8: after learning a README with the sections Introduction,             *)
(* Installation, Usage, License, synthesis for a JavaScript repository     *)
(* without a license renders the four headings in that order and the      *)
(* generic sentence under License.                                         *)
(***************************************************************************)
C8_LearnedOnlyE2E ==
  /\ "JavaScript" \in DOMAIN learnedPatterns
  /\ Len(learnedPatterns["JavaScript"]) = 1
  /\ \A k \in 1..Len(learnedPatterns["JavaScript"][1].from) :
       learnedPatterns["JavaScript"][1].from[k] = "E2E"

C8_EndToEndOrder ==
  (/\ last.op = "synth"
   /\ last.category = "JavaScript"
   /\ Repos[last.repo].license = ""
   /\ C8_LearnedOnlyE2E) =>
    /\ ~result.threw
    /\ InOrder(result.lines, 1,
               <<"Introduction", "# Installation", "## Usage", "## License">>, 1)
    /\ \E i \in 1..(Len(result.lines) - 2) :
         /\ result.lines[i] = "## License"
         /\ result.lines[i + 1] = ""
         /\ result.lines[i + 2] =
              "This project is licensed under the terms of the license included in the repository."

C8_Witness ==
  /\ last.op = "synth"
  /\ last.repo = "site"
  /\ C8_LearnedOnlyE2E
  /\ [i \in 1..4 |-> learnedPatterns["JavaScript"][1].sections[i].title]
       = <<"Introduction", "Installation", "Usage", "License">>
  /\ ~result.threw

(***************************************************************************)
(* C9: synthesis never throws: whatever goes wrong, the caller gets a      *)
(* document.                                                               *)
(***************************************************************************)
C9_SynthesisNeverThrows ==
  last.op = "synth" => (~result.threw /\ Len(result.lines) > 0)

(***************************************************************************)
(* C10: learnFromRepository never throws, and with no README, a failing    *)
(* fetch or a README of white space only it leaves the Pattern Store as    *)
(* it was.                                                                 *)
(***************************************************************************)
NothingToLearn(e) ==
  \/ ~Envs[e].readmeExists
  \/ Envs[e].fetchFails
  \/ \A i \in 1..Len(Envs[e].content) : IsBlank(Envs[e].content[i])

C10_LearnNeverFailsNorHalfUpdates ==
  [][last'.op = "learn" =>
       /\ ~result'.threw
       /\ NothingToLearn(last'.arg) => learnedPatterns' = learnedPatterns]_vars

\* a white-space README was offered to a store that holds patterns
C10_Witness ==
  /\ last.op = "learn"
  /\ last.arg = "blank"
  /\ ~result.threw
  /\ DOMAIN learnedPatterns # {}

(***************************************************************************)
(* C11: string similarity is 1 for two identical non-empty strings, 0 when *)
(* either argument is empty (both empty included), and otherwise equals    *)
(* 1 - editDistance(a, b) / max(len(a), len(b)), a value within [0, 1].    *)
(***************************************************************************)
\* the edit distance by its defining recurrence, over the prefixes a[1..i], b[1..j]
RECURSIVE EditDistance(_, _, _, _)
EditDistance(a, b, i, j) ==
  IF i = 0 THEN j
  ELSE IF j = 0 THEN i
  ELSE Min2(Min2(EditDistance(a, b, i - 1, j) + 1, EditDistance(a, b, i, j - 1) + 1),
            EditDistance(a, b, i - 1, j - 1) + (IF Char(a, i) = Char(b, j) THEN 0 ELSE 1))

Returned11 == last.op = "return" /\ last.fn = "calculateStringSimilarity"

C11_StringSimilarity ==
  Returned11 =>
    LET a == last.str1
        b == last.str2
        longer == Max2(Len(a), Len(b))
    IN /\ (a = b /\ a # "") => result.value = FracOfInt(1)
       /\ (a = "" \/ b = "") => result.value = FracOfInt(0)
       /\ (a # "" /\ b # "") =>
            /\ result.value = Frac(longer - EditDistance(a, b, Len(a), Len(b)), longer)
            /\ FracLeq(FracOfInt(0), result.value)
            /\ FracLeq(result.value, FracOfInt(1))

\* two different non-empty strings that share letters have been compared
C11_Witness ==
  /\ Returned11
  /\ last.str1 = "usage"
  /\ last.str2 = "sage"
  /\ result.value = [n |-> 4, d |-> 5]

(***************************************************************************)
(* C12: in a pattern parsed from one document the i-th section (from 0)    *)
(* has position i. Non-blank text before the first heading becomes the     *)
(* section "Introduction" of level 0 and position 0 and the headings       *)
(* follow as 1, 2, ...; without such text the first heading has position   *)
(* 0; blank lines before any content make no section.                      *)
(***************************************************************************)
Returned12 == last.op = "return" /\ last.fn = "analyzeReadmeStructure"

HeadingLines(lines) == {i \in 1..Len(lines) : HeadingMatch(lines[i]).matched}

\* some non-blank line stands before every heading
LeadingContent(lines) ==
  \E i \in 1..Len(lines) :
    /\ ~IsBlank(lines[i])
    /\ \A k \in HeadingLines(lines) : i < k

C12_PositionsAreIndices ==
  (Returned12 /\ result.value # <<>>) =>
    LET lines == Documents[last.readme]
        sections == result.value[1].sections
    IN /\ Len(sections) =
            Cardinality(HeadingLines(lines)) + (IF LeadingContent(lines) THEN 1 ELSE 0)
       /\ \A i \in 1..Len(sections) : sections[i].position = FracOfInt(i - 1)
       /\ LeadingContent(lines) =>
            /\ sections[1].title = "Introduction"
            /\ sections[1].level = 0
       /\ \A i \in 1..Len(sections) :
            (i > 1 \/ ~LeadingContent(lines)) => sections[i].level >= 1

\* a document with blank lines, then text, then two headings has been parsed
C12_Witness ==
  /\ Returned12
  /\ last.readme = "intro"
  /\ Len(result.value[1].sections) = 3
  /\ result.value[1].sections[3].title = "B"

(***************************************************************************)
(* C13: the cache never returns an expired value. Over set, get and clock  *)
(* advances, get(k) returns the value of the latest set(k, v, ttlSeconds)  *)
(* while the time is before that set's time plus ttlSeconds, and null once *)
(* that time is reached, whether the entry is found in memory or only in   *)
(* localStorage; get of a key never set returns null. (written holds the   *)
(* latest set of each key of the sequence in progress: clear() starts a    *)
(* new sequence, and so does a reload where there is no localStorage.)     *)
(***************************************************************************)
Unexpired(key) ==
  /\ key \in DOMAIN written
  /\ now < written[key].at + written[key].ttlSeconds * 1000

C13_NeverReturnsExpired ==
  last.op = "get" =>
    result.value = IF Unexpired(last.key) THEN <<written[last.key].value>> ELSE <<>>

\* a get after a reload has found an unexpired entry in localStorage alone,
\* some time after it was set
C13_Witness ==
  /\ last.op = "get"
  /\ ~last.inMemory
  /\ result.value = <<"value2">>
  /\ now > written[last.key].at

\* a get has been refused an entry at the very instant it expired
C13_WitnessExpired ==
  /\ last.op = "get"
  /\ last.inMemory
  /\ last.key \in DOMAIN written
  /\ now = written[last.key].at + written[last.key].ttlSeconds * 1000
  /\ result.value = <<>>

(***************************************************************************)
(* C14: entries persist across the loss of the memory map. Where there is  *)
(* a localStorage, set(k, v) also writes the entry, value and expiry,      *)
(* under the key github_cache_k; a later get(k) that finds nothing in      *)
(* memory returns v from localStorage if it is unexpired and puts the      *)
(* entry back in memory; an expired entry is removed from localStorage and *)
(* get returns null.                                                       *)
(***************************************************************************)
Persisted(key) == "github_cache_" \o key

ExpiryOf(key) == written[key].at + written[key].ttlSeconds * 1000

C14_SetPersists ==
  (last.op = "set" /\ world.localStorage) =>
    /\ Persisted(last.key) \in DOMAIN localStorage
    /\ JsonParse(localStorage[Persisted(last.key)]) =
         [value |-> last.value, expiry |-> now + last.ttlSeconds * 1000]

C14_GetRestores ==
  (last.op = "get" /\ ~last.inMemory /\ world.localStorage /\ last.key \in DOMAIN written) =>
    IF now < ExpiryOf(last.key)
      THEN /\ result.value = <<written[last.key].value>>
           /\ last.key \in DOMAIN memory
           /\ memory[last.key] =
                [value |-> written[last.key].value, expiry |-> ExpiryOf(last.key)]
      ELSE /\ result.value = <<>>
           /\ Persisted(last.key) \notin DOMAIN localStorage

C14_PersistsAcrossMemoryLoss == C14_SetPersists /\ C14_GetRestores

\* after a reload, a get has brought an entry back from localStorage
C14_Witness ==
  /\ last.op = "get"
  /\ ~last.inMemory
  /\ world.localStorage
  /\ last.key \in DOMAIN memory
  /\ result.value = <<"value1">>

\* after a reload, a get has found an expired entry in localStorage and removed it
C14_WitnessExpired ==
  /\ last.op = "get"
  /\ ~last.inMemory
  /\ world.localStorage
  /\ last.key \in DOMAIN written
  /\ now >= ExpiryOf(last.key)
  /\ result.value = <<>>

C16_Holds(cacheKey) == CacheGet(TheCache, cacheKey).value # <<>>

C16_CacheHitsBypass ==
  [][(last'.op = "api" /\ C16_Holds(last'.cacheKey)) =>
       /\ result' = [threw |-> FALSE, value |-> CacheGet(TheCache, last'.cacheKey).value[1],
                     fetches |-> 0]
       /\ requestCounts' = requestCounts]_vars

(***************************************************************************)
(* C17: generateRepoReadme propagates errors: if fetching the contents of  *)
(* the repository from the GitHub client fails, generateRepoReadme rejects *)
(* instead of returning a result with a README.                            *)
(***************************************************************************)
C17_PropagatesErrors ==
  (last.op = "generateRepoReadme" /\ ContentsAnswers[last.contents].failed) => result.threw

(***************************************************************************)
(* C18: fetchRepoContents, the server action, never rejects. For a         *)
(* repository record with an owner: when the contents fetch of the client  *)
(* fails or yields an empty listing it returns the default structure of    *)
(* the repository's language, which for JavaScript, in any case of the     *)
(* letters, holds package.json and src/; otherwise it returns the paths of *)
(* the listed items in order.                                              *)
(***************************************************************************)
Returned18 == last.op = "fetchRepoContents"

C18_NeverRejects ==
  Returned18 =>
    LET repo == Repos[last.repo]
        answer == ContentsAnswers[last.contents]
    IN /\ ~result.threw
       /\ (repo.hasOwner /\ (answer.failed \/ answer.data = <<>>)) =>
            /\ result.value = GetDefaultStructure(repo.language)
            /\ ToLowerCase(repo.language) = "javascript" =>
                 {"package.json", "src/"} \subseteq Elements(result.value)
       /\ (repo.hasOwner /\ ~answer.failed /\ answer.data # <<>>) =>
            /\ Len(result.value) = Len(answer.data)
            /\ \A i \in 1..Len(answer.data) : result.value[i] = answer.data[i].path

\* the fetch has failed for a JavaScript repository and for another one, and
\* a listing of two items has been returned
C18_Witness ==
  /\ Returned18
  /\ last.repo = "app"
  /\ last.contents = "fails"
  /\ result.value[1] = "package.json"

C18_WitnessListing ==
  /\ Returned18
  /\ last.contents = "listing"
  /\ result.value = <<"src/index.js", "package.json">>

(***************************************************************************)
(* C19: when a merge step matches an incoming section to an existing       *)
(* section of position p and frequency f, the existing section's position  *)
(* becomes (p * f + q) / (f + 1), q being the incoming position, and its   *)
(* frequency becomes f + 1. The steps are those of the for loop of         *)
(* mergeSections, one for each incoming section, in order.                 *)
(***************************************************************************)
Returned19 == last.op = "return" /\ last.fn = "mergeSections"

\* the i-th step of the loop, from the list the steps before it have left
C19_StepKeepsWeightedAverage(existingSections, newSections, i) ==
  LET before == MergeEach(existingSections, SubSeq(newSections, 1, i - 1), 1)
      after == MergeSection(before, newSections[i])
      found == {m \in 1..Len(before) : TitlesSimilar(before[m], newSections[i])}
  IN found # {} =>
       LET m == CHOOSE x \in found : \A k \in found : x <= k
           p == before[m].position
           f == before[m].frequency
           q == newSections[i].position
       IN /\ after[m].frequency = f + 1
          /\ after[m].position = Frac((p.n * f) * q.d + q.n * p.d, p.d * q.d * (f + 1))

C19_WeightedAverageOfOldFrequency ==
  Returned19 =>
    LET existingSections == ParseSections(Documents[last.first])
        newSections == ParseSections(Documents[last.second])
    IN \A i \in 1..Len(newSections) :
         C19_StepKeepsWeightedAverage(existingSections, newSections, i)

(***************************************************************************)
(* C20: in calculateSectionSimilarity every section of either list takes   *)
(* part in at most one matching pair, so the number of matches is at most  *)
(* the length of the first list and at most the length of the second.      *)
(***************************************************************************)
Returned20 == last.op = "return" /\ last.fn = "calculateSectionSimilarity"

\* the pairs the loops count: each section1 with the first section2 it matches
C20_MatchingPairs(sections1, sections2) ==
  {<<i, j>> \in (1..Len(sections1)) \X (1..Len(sections2)) :
     /\ SectionsMatch(sections1[i], sections2[j])
     /\ \A k \in 1..(j - 1) : ~SectionsMatch(sections1[i], sections2[k])}

C20_MatchesAreOneToOne ==
  Returned20 =>
    LET sections1 == ParseSections(Documents[last.first])
        sections2 == ParseSections(Documents[last.second])
        pairs == C20_MatchingPairs(sections1, sections2)
    IN /\ \A a \in pairs, b \in pairs : (a[1] = b[1] \/ a[2] = b[2]) => a = b
       /\ Cardinality(pairs) = CountMatches(sections1, sections2)
       /\ CountMatches(sections1, sections2) <= Len(sections1)
       /\ CountMatches(sections1, sections2) <= Len(sections2)

(***************************************************************************)
(* C21: after any sequence of learn calls the sections of every stored     *)
(* pattern are in non-decreasing order of their positions.                 *)
(***************************************************************************)
\* the stored patterns, whatever their category
StoredPatterns ==
  UNION {Elements(learnedPatterns[c]) : c \in DOMAIN learnedPatterns}

C21_SectionsSortedByPosition ==
  \A pattern \in StoredPatterns :
    \A i \in 1..Len(pattern.sections), j \in 1..Len(pattern.sections) :
      i < j => FracLeq(pattern.sections[i].position, pattern.sections[j].position)

\* a merge has appended a section that the sort has then moved forward: the
\* License section of the second README stands before the last Usage section
\* of the first
C21_Witness ==
  \E pattern \in StoredPatterns :
    /\ pattern.from = <<"UUU", "UL">>
    /\ Len(pattern.sections) = 4
    /\ pattern.sections[4].title = "Usage"
    /\ \E i \in 1..3 : pattern.sections[i].title = "License"

(***************************************************************************)
(* C22: the store only grows. A learn removes no category, no pattern and  *)
(* no section and lowers no frequency of a pattern or of a section; in a   *)
(* merge every incoming section has either raised the frequency of one     *)
(* existing section by one or been appended with frequency 1.              *)
(***************************************************************************)
\* the sections of a list that have the title and at least the frequency
C22_SectionsAtLeast(sections, title, frequency) ==
  Cardinality({i \in 1..Len(sections) :
                 sections[i].title = title /\ sections[i].frequency >= frequency})

RECURSIVE C22_SumSectionFrequency(_, _)
C22_SumSectionFrequency(sections, i) ==
  IF i > Len(sections) THEN 0
  ELSE sections[i].frequency + C22_SumSectionFrequency(sections, i + 1)

\* pattern q is pattern p (the same stored object) after the learn of the
\* incoming sections, or p untouched
C22_PatternGrew(p, q, incoming) ==
  /\ q.frequency >= p.frequency
  /\ Len(q.sections) >= Len(p.sections)
  /\ \A i \in 1..Len(p.sections) :
       C22_SectionsAtLeast(q.sections, p.sections[i].title, p.sections[i].frequency)
         >= C22_SectionsAtLeast(p.sections, p.sections[i].title, p.sections[i].frequency)
  /\ q.frequency = p.frequency => q = p
  /\ q.frequency > p.frequency =>
       /\ q.frequency = p.frequency + 1
       /\ C22_SumSectionFrequency(q.sections, 1)
            = C22_SumSectionFrequency(p.sections, 1) + Len(incoming)

C22_StoreGrew(old, new, incoming) ==
  /\ DOMAIN old \subseteq DOMAIN new
  /\ \A c \in DOMAIN old :
       /\ Len(new[c]) >= Len(old[c])
       /\ \A k \in 1..Len(old[c]) :
            \E m \in 1..Len(new[c]) :
              /\ new[c][m].born = old[c][k].born
              /\ C22_PatternGrew(old[c][k], new[c][m], incoming)

C22_StoreOnlyGrows ==
  [][last'.op = "learn" =>
       C22_StoreGrew(learnedPatterns, learnedPatterns',
                     ParseSections(Envs[last'.arg].content))]_vars

\* a merge has both raised the frequency of a section and appended one
C22_Witness ==
  /\ last.op = "learn"
  /\ \E pattern \in StoredPatterns :
       /\ pattern.frequency >= 2
       /\ \E i \in 1..Len(pattern.sections) : pattern.sections[i].frequency >= 2
       /\ \E i \in 1..Len(pattern.sections) : pattern.sections[i].frequency = 1
       /\ Len(pattern.sections) = 4

(***************************************************************************)
(* C23: in pattern-based synthesis a section is filled with the repository *)
(* description, or with the one-line fallback when there is none, by the   *)
(* first rule of all. As claimed the rule applies when the lower-cased     *)
(* title contains "introduction" or the title is empty; as amended it      *)
(* applies when the lower-cased title is "introduction" or the title is    *)
(* empty, and any other title that holds no keyword of the later rules,    *)
(* "Introduction to X" among them, gets the generic sentence.              *)
(***************************************************************************)
Returned23 == last.op = "return" /\ last.fn = "generateSectionContent"

C23_Description(repo) ==
  Returned(<<IF repo.description # "" THEN repo.description ELSE "A software project.">>)

C23_TitleContainingIntroduction ==
  (Returned23 /\ (Includes(ToLowerCase(last.title), "introduction") \/ last.title = "")) =>
    result = C23_Description(Repos[last.repo])

\* the words the later rules look for
C23_Keywords ==
  {"install", "getting started", "setup", "usage", "example", "feature", "api",
   "documentation", "contribute", "contributing", "license", "author", "credit",
   "acknowledgement"}

C23_TitleIntroduction ==
  /\ (Returned23 /\ (ToLowerCase(last.title) = "introduction" \/ last.title = "")) =>
       result = C23_Description(Repos[last.repo])
  /\ (/\ Returned23
      /\ ToLowerCase(last.title) \notin {"introduction", ""}
      /\ \A word \in C23_Keywords : ~Includes(ToLowerCase(last.title), word)) =>
       result = Returned(<<"This section needs to be filled with relevant information.">>)

\* the rule has filled a section titled in capitals for a repository without
\* description
C23_Witness ==
  /\ Returned23
  /\ last.title = "INTRODUCTION"
  /\ last.repo = "site"
  /\ result.lines = <<"A software project.">>

(***************************************************************************)
(* C24: whenever the pattern used for synthesis has style.usesShields, the *)
(* synthesized document holds the badge line right after its first line    *)
(* (and the empty line that ends it), whatever the level of the pattern's  *)
(* first section.                                                          *)
(***************************************************************************)
Returned24 == last.op = "return" /\ last.fn = "generateReadmeFromPattern"

C24_BadgesAfterFirstLine ==
  (/\ Returned24
   /\ AnalyzeReadmeStructure(Documents[last.readme])[1].style.usesShields) =>
    /\ ~result.threw
    /\ Len(result.lines) >= 3
    /\ result.lines[3] = GenerateBadges(Repos[last.repo])

(***************************************************************************)
(* C25: concurrent learns are serializable. With several calls of          *)
(* learnFromRepository in flight, interleaving at their awaits, the store  *)
(* is at every moment the one that the calls that have reached it leave    *)
(* when run one after another in the order in which they reached it, and   *)
(* no update is lost: N calls for one parseable README and one repository  *)
(* leave one pattern of frequency N.                                       *)
(***************************************************************************)
C25_Updaters == {id \in DOMAIN inFlight : inFlight[id].turn > 0}

\* the store after the first k of them, each run from start to end
RECURSIVE C25_SerialStore(_)
C25_SerialStore(k) ==
  IF k = 0 THEN <<>>
  ELSE LET id == CHOOSE i \in C25_Updaters : inFlight[i].turn = k
       IN LearnFromRepository(C25_SerialStore(k - 1), Repos[inFlight[id].repo],
                              Envs[inFlight[id].env]).store

C25_Serializable ==
  /\ learnedPatterns = C25_SerialStore(Cardinality(C25_Updaters))
  /\ \A r \in world.repos, e \in world.envs :
       (/\ C25_Updaters # {}
        /\ \A id \in C25_Updaters : inFlight[id].repo = r /\ inFlight[id].env = e
        /\ AnalyzeReadmeStructure(Envs[e].content) # <<>>) =>
         /\ DOMAIN learnedPatterns = {CategorizeRepository(Repos[r])}
         /\ Len(learnedPatterns[CategorizeRepository(Repos[r])]) = 1
         /\ learnedPatterns[CategorizeRepository(Repos[r])][1].frequency
              = Cardinality(C25_Updaters)

\* three calls for one README have reached the store in another order than
\* that of their ids
C25_Witness ==
  /\ DOMAIN inFlight = 1..3
  /\ \A id \in 1..3 : inFlight[id].env = "UL"
  /\ inFlight[1].turn = 3
  /\ inFlight[2].turn = 1
  /\ inFlight[3].turn = 2
  /\ learnedPatterns["JavaScript"][1].frequency = 3

(***************************************************************************)
(* C26: in every stored pattern, after any sequence of learns, each        *)
(* section's frequency is at least 1 and at most the frequency of the      *)
(* pattern that owns it, also when an incoming document has several        *)
(* sections whose titles match the same stored section.                    *)
(***************************************************************************)
C26_SectionFrequencyWithinPattern ==
  \A p \in StoredPatterns :
    \A i \in 1..Len(p.sections) :
      /\ p.sections[i].frequency >= 1
      /\ p.sections[i].frequency <= p.frequency

(***************************************************************************)
(* C27: for two section lists of at least one section each, duplicate      *)
(* titles allowed, the pattern similarity is a number between 0 and 1: the *)
(* count of matches is at most the number of distinct lower-cased titles   *)
(* and the divisor is not 0.                                               *)
(***************************************************************************)
Returned27 ==
  /\ last.op = "return"
  /\ last.fn = "calculateSectionSimilarity"
  /\ ParseSections(Documents[last.first]) # <<>>
  /\ ParseSections(Documents[last.second]) # <<>>

C27_DistinctTitles(sections1, sections2) ==
  {ToLowerCase(sections1[i].title) : i \in 1..Len(sections1)}
    \cup {ToLowerCase(sections2[j].title) : j \in 1..Len(sections2)}

C27_SimilarityWithinUnit ==
  Returned27 =>
    /\ C27_DistinctTitles(ParseSections(Documents[last.first]),
                          ParseSections(Documents[last.second])) # {}
    /\ result.value.d > 0
    /\ result.value.n >= 0
    /\ result.value.n <= result.value.d
    /\ CountMatches(ParseSections(Documents[last.first]), ParseSections(Documents[last.second]))
         <= Cardinality(C27_DistinctTitles(ParseSections(Documents[last.first]),
                                           ParseSections(Documents[last.second])))

(***************************************************************************)
(* C28: the rate limiter admits at most RATE_LIMIT = 10 requests a minute  *)
(* for an identifier: of the calls of checkRateLimit made for it within    *)
(* any interval of 60 seconds at most 10 return true; and an identifier    *)
(* that was rejected is admitted again once its resetTime has passed.      *)
(***************************************************************************)
\* the calls admitted for the identifier from time t to less than 60 seconds
\* later
C28_AdmittedWithin(identifier, t) ==
  {k \in 1..Len(admitted[identifier]) :
     /\ admitted[identifier][k] >= t
     /\ admitted[identifier][k] < t + RATE_LIMIT_WINDOW}

\* it is enough to look at the intervals that begin with an admitted call
C28_AtMostTenInAnyMinute ==
  \A identifier \in DOMAIN admitted :
    \A k \in 1..Len(admitted[identifier]) :
      Cardinality(C28_AdmittedWithin(identifier, admitted[identifier][k])) <= RATE_LIMIT

\* a call made after the resetTime of the identifier's window returns true
C28_AdmittedAfterReset ==
  \A identifier \in DOMAIN requestCounts :
    \A t \in {requestCounts[identifier].resetTime + 1,
              requestCounts[identifier].resetTime + world.step} :
      CheckRateLimit(requestCounts, identifier, t).allowed

C28_TenPerMinute == C28_AtMostTenInAnyMinute /\ C28_AdmittedAfterReset

(***************************************************************************)
(* C29: fetchWithRetry ends after at most 4 fetches (the first and         *)
(* retryCount = 3 retries) whatever mix of network errors, 5xx responses   *)
(* and 403 responses of an exhausted limit it meets; a wait comes before   *)
(* each retry; the wait before the k-th retry, when a network error or a   *)
(* 5xx response causes it, is 1000, 2000, 4000 ms for k = 1, 2, 3; and     *)
(* after the last fetch it returns the last response or throws the last    *)
(* network error.                                                          *)
(***************************************************************************)
Returned29 == last.op = "return" /\ last.fn = "fetchWithRetry"

C29_ErrorOrServerError(response) == response.failed \/ response.status >= 500

C29_RetriesAreBounded ==
  Returned29 =>
    /\ result.fetches >= 1
    /\ result.fetches <= retryCount + 1
    /\ Len(result.waits) = result.fetches - 1
    /\ \A k \in 1..Len(result.waits) :
         /\ result.waits[k] > 0
         /\ C29_ErrorOrServerError(last.script[k]) =>
              result.waits[k] = retryDelay * Pow2(k - 1)
    /\ result.response = last.script[result.fetches]
    /\ result.threw = last.script[result.fetches].failed

\* four fetches met no network, and the error of the fourth was thrown after
\* waits of 1, 2 and 4 seconds
C29_Witness ==
  /\ Returned29
  /\ result.fetches = 4
  /\ result.threw
  /\ result.waits = <<1000, 2000, 4000>>

\* a wait for GitHub's limit came between two retries after errors
C29_WitnessMixed ==
  /\ Returned29
  /\ result.fetches = 4
  /\ ~result.threw
  /\ Len(result.waits) = 3
  /\ result.waits[1] = 1000
  /\ result.waits[2] > 2000
  /\ result.waits[3] = 4000

(***************************************************************************)
(* C30: fetchRepoByUrl, given a URL of github.com whose path has at least  *)
(* two segments, resolves with what githubApi.fetchRepo gives for the      *)
(* owner and the repository of the URL; it rejects with "Invalid GitHub    *)
(* repository URL" only when the URL is not a GitHub URL or its path has   *)
(* fewer than two segments.                                                *)
(***************************************************************************)
Returned30 == last.op = "return" /\ last.fn = "fetchRepoByUrl"

\* a URL of GitHub with an owner and a repository in its path
C30_RepositoryUrl(url) ==
  /\ ~NewURL(url).threw
  /\ Includes(NewURL(url).hostname, "github.com")
  /\ Len(PathSegments(NewURL(url).pathname, 1, "")) >= 2

C30_ResolvesWithRepository ==
  Returned30 =>
    /\ C30_RepositoryUrl(last.url) =>
         result = FetchRepoOf(PathSegments(NewURL(last.url).pathname, 1, "")[1],
                              PathSegments(NewURL(last.url).pathname, 1, "")[2], last.api)
    /\ (result.threw /\ result.message = "Invalid GitHub repository URL") =>
         ~C30_RepositoryUrl(last.url)

====
